---- MODULE Spec2Model ----
(***************************************************************************)
(* A model of the focus firmware (alrapal/focus): the hl_driver debouncer, *)
(* the SpiPeripheral shared-bus wrapper and the interrupt / main-loop      *)
(* boundary of the firmware binary.                                        *)
(*                                                                         *)
(* The specifications share the variables of this module:                  *)
(*   SpecDeb  the Debouncer driven by an arbitrary stream of samples,      *)
(*   SpecBus  SpiPeripheral::transaction driven by an arbitrary caller,    *)
(*   SpecFw   the firmware: main, the timer handler and the button handler,*)
(*   SpecSw   a Switch and a DebouncedSwitch polled in any way, with       *)
(*            failing reads,                                               *)
(*   SpecHold a DebouncedSwitch polled through one method over a long run  *)
(*            of successful reads,                                         *)
(*   SpecEnc  the two rotary decoders, called with any line readings.      *)
(***************************************************************************)
EXTENDS Integers, Sequences, FiniteSets

(***************************************************************************)
(* Bounds of the model.                                                    *)
(***************************************************************************)
\* samples fed to one Debouncer in SpecDeb (3 to load it, 8 to clear it)
MaxSamples == 11
\* operations in the list handed to one transaction in SpecBus
MaxOps == 2
\* SpecFw explores COUNTER values in -MaxCount..MaxCount
MaxCount == 1
\* polls of the two switches in SpecSw
MaxPolls == 4
\* polls of the DebouncedSwitch in SpecHold (4 held, 8 released)
MaxHold == 12
\* calls of the decoders in SpecEnc
MaxCalls == 4
\* the executions of encoder_isr explored
MaxTicks == 3
\* the largest ns_per_tick a SpiPeripheral is constructed with
MaxNsPerTick == 5
\* the largest delay_ns of a DelayNs operation
MaxDelayNs == 9
\* the number of samples fed to the two decoders side by side
MaxPairs == 5
\* failed pin reads in a run of polls of has_been_pressed
MaxFaults == 1

(***************************************************************************)
(* Program constants.                                                      *)
(***************************************************************************)
\* hl_driver/src/debounce.rs:1-2
DEBOUNCE_MASK == 7
RELEASED_MASK == 0
\* the width of Debouncer.register (u8)
U8 == 256

\* focus/src/hardware/screen.rs:40, SpiPeripheral::new(mutex_bus, cs, 4)
NsPerTick == 4

\* The logical devices on the bus: one SpiPeripheral each, with its own
\* chip-select and a reference to the one SPI_BUS cell.  The firmware builds
\* "display" (screen.rs:40); "other" is a second instance on the same cell.
Devices == {"display", "other"}
\* the errors the underlying SpiBus can return (S::Error)
BusErrors == {"e1", "e2"}
\* Operation<'_, u8>
OpKinds == {"Read", "Write", "Transfer", "TransferInPlace", "DelayNs"}
\* the delay_ns values of a DelayNs operation
DelayNsChoices == {9}

\* src/bin/main.rs:52-53, 58-59
DELAY_LOOP_MS == 10
DEBOUNCE_MS == 200
MIN_COUNTER == 0
MAX_COUNTER == 120
\* src/hardware/rotary_encoder.rs:5 and hl_driver/src/encoder.rs:6
DEFAULT_STATE == 3
\* focus/src/bin/main.rs
MIN_RADIUS == 0
MAX_RADIUS == 120

\* the static cells of src/bin/main.rs:38-44 other than SPI_BUS
Cells == {"BUTTON", "HY_040", "DEBOUNCE_TIMER", "ENCODER_TIMER"}
\* the Instants the firmware keeps: the local of main.rs:82, the one in
\* DEBOUNCE_TIMER and the loop_timer of main.rs:141
Timers == {"debounce_timer", "DEBOUNCE_TIMER", "loop_timer"}
\* how far the clock moves between two observations, in ms
TimeSteps == {100}
\* the operation list of one display transfer
DisplayOps == <<"Write">>

VARIABLES
    \* ---- hl_driver::debounce::Debouncer ----
    register,      \* Debouncer.register (u8)
    hist,          \* history: the samples fed so far, each with the register it left
    \* ---- SPI_BUS and SpiPeripheral ----
    busCell,       \* the Option in SPI_BUS: "None" or "Some"
    busHolder,     \* the devices whose transaction holds the RefMut of SPI_BUS
    critDepth,     \* nesting of critical_section::with; interrupts are masked while > 0
    panicked,      \* a panic happened (the panic handler loops for ever)
    csLine,        \* csLine[d]: the level of device d's chip-select pin
    txnPc,         \* txnPc[d]: where d's transaction call stands
    txnDev,        \* the device of the call in progress / the most recent call
    txnOps,        \* the operations argument of the call in progress
    txnIdx,        \* the index of the next operation of the for loop
    txnRes,        \* the closure's result, once decided
    txnSpins,      \* the busy-waits of the call's DelayNs operations, one record each
    log,           \* history: the bus events of the current / most recent call
    lastResult,    \* lastResult[d]: what d's most recent call returned
    \* ---- src/bin/main.rs: main, button_handler, encoder_handler ----
    mainPc,        \* where main stands
    cell,          \* cell[c]: the Option in the static c, "None" or "Some"
    listening,     \* the GPIO lines whose edge interrupt is enabled
    timerStarted,  \* the periodic timer has been started
    irq,           \* the interrupt sources whose status bit is set
    COUNTER,       \* AtomicI32
    SW_PRESSED,    \* AtomicBool
    BOOT_PRESSED,  \* AtomicBool
    hyState,       \* EncoderListener.state
    elapsed,       \* elapsed[t]: ms since Instant t was taken, saturating
    counter,       \* main's local of main.rs:161
    radius32,      \* main's local radius (u32) as <<high, low>> 16-bit halves, 0 when dead
    ignored,       \* observer: the last step was button_handler returning at main.rs:205
    \* ---- hl_driver::switch: one Switch and one DebouncedSwitch ----
    pressed_state, \* Switch.pressed_state, "none" before Switch::new
    last_state,    \* last_state[sw]: Switch.last_state of the switch sw
    debouncer,     \* DebouncedSwitch.debouncer.register (u8)
    polls,         \* history: the calls made on the two switches
    \* ---- hl_driver::encoder::Hy040 ----
    hy040,         \* Hy040.state (u8)
    encodes,       \* history: the calls made on the decoders
    \* ---- focus/src/bin/main.rs: main, switch_handler, encoder_isr ----
    focusPc,       \* where main stands
    focusCell,     \* focusCell[c]: the Option in the static c, "None" or "Some"
    CIRCLE_RADIUS, \* AtomicI32
    radius,        \* main's local of main.rs:124, 0 outside its scope
    ticks,         \* history: the executions of encoder_isr
    sinceDraw,     \* the time in ms since the loop last began a redraw, up to DELAY_LOOP_MS
    \* ---- SpiPeripheral.ns_per_tick and the histories of single properties ----
    ns_per_tick,   \* ns_per_tick[d]: the field of device d (u32)
    stale,         \* history, stale[line]: "edge" when the pending bit of line was set
                   \* inside the debounce window, "ignored" once a button_handler run
                   \* has returned inside the window with it, "none" otherwise
    pairs          \* history: the samples fed to Hy040::encode and Encode::update side
                   \* by side, with what each returned

debVars == <<register, hist>>
busVars == <<busCell, busHolder, critDepth, panicked, csLine, txnPc, txnDev, txnOps,
             txnIdx, txnRes, txnSpins, log, lastResult>>

fwVars == <<mainPc, cell, listening, timerStarted, irq, COUNTER, SW_PRESSED, BOOT_PRESSED,
            hyState, elapsed, counter, radius32, ignored>>

swVars == <<pressed_state, last_state, debouncer, polls>>

encVars == <<hy040, encodes>>

focusVars == <<focusPc, focusCell, CIRCLE_RADIUS, radius, ticks, sinceDraw>>

hlVars == <<swVars, encVars, focusVars>>

auxVars == <<ns_per_tick, stale, pairs>>

vars == <<debVars, busVars, fwVars, hlVars, auxVars>>

(***************************************************************************)
(* hl_driver/src/debounce.rs                                               *)
(***************************************************************************)

\* a mutant of DebounceStateFrom: the register counts as Loaded after two samples
DebounceStateFrom_Mask2(value) ==
    CASE value = 3 -> "Loaded"
      [] value = RELEASED_MASK -> "Unloaded"
      [] OTHER -> "Transition"

\* a mutant of DebounceStateFrom: release decided on the masked low bits only
DebounceStateFrom_MaskedRelease(value) ==
    CASE value = DEBOUNCE_MASK -> "Loaded"
      [] value % (DEBOUNCE_MASK + 1) = RELEASED_MASK -> "Unloaded"
      [] OTHER -> "Transition"

\* a mutant of DebounceStateFrom: Loaded decided on the masked low bits
DebounceStateFrom_Masked(value) ==
    CASE value % (DEBOUNCE_MASK + 1) = DEBOUNCE_MASK -> "Loaded"
      [] value = RELEASED_MASK -> "Unloaded"
      [] OTHER -> "Transition"

\* impl From<u8> for DebounceState: a match on the whole value, first arm first
DebounceStateFrom(value) ==
    CASE value = DEBOUNCE_MASK -> "Loaded"
      [] value = RELEASED_MASK -> "Unloaded"
      [] OTHER -> "Transition"

\* Debouncer::get_state
get_state == DebounceStateFrom(register)

\* a mutant of ShiftIn: the sample enters at the most-significant bit
ShiftIn_MsbFirst(reg, state) == (reg \div 2) + (IF state THEN U8 \div 2 ELSE 0)

\* (register << 1) | state as u8, in a u8
ShiftIn(reg, state) == ((reg * 2) % U8) + (IF state THEN 1 ELSE 0)

\* Debouncer::debounce(state)
debounce(state) ==
    /\ Len(hist) < MaxSamples
    /\ register' = ShiftIn(register, state)
    /\ hist' = Append(hist, [sample |-> state, reg |-> ShiftIn(register, state)])
    /\ UNCHANGED <<busVars, fwVars, hlVars>>

(***************************************************************************)
(* focus/src/drivers/spi_peripheral.rs                                     *)
(***************************************************************************)

\* Result<(), SpiPeripheralError<E>>
NoResult == [kind |-> "none", e |-> "none"]
Ok == [kind |-> "Ok", e |-> "none"]
LockErr == [kind |-> "Lock", e |-> "none"]
ChipSelectErr == [kind |-> "ChipSelect", e |-> "none"]
SpiBusErr(e) == [kind |-> "SpiBus", e |-> e]

\* one entry of the log
Event(ev, arg, err) == [ev |-> ev, arg |-> arg, err |-> err]

\* all operation lists of at most MaxOps operations
OpLists == UNION {[1..n -> OpKinds] : n \in 0..MaxOps}

\* a mutant of IrqEnabled: a critical section does not hold interrupts back
IrqEnabled_Always == TRUE

\* interrupts are delivered only outside critical sections
IrqEnabled == critDepth = 0

Idle == \A d \in Devices : txnPc[d] = "idle"

\* the caller invokes device.transaction(operations); it is sequential code, so
\* it is not inside another call
TxnCall(d, operations) ==
    /\ Idle
    /\ ~panicked
    /\ txnPc' = [txnPc EXCEPT ![d] = "enter"]
    /\ txnDev' = d
    /\ txnOps' = operations
    /\ txnIdx' = 1
    /\ txnRes' = NoResult
    /\ txnSpins' = <<>>
    /\ log' = <<>>
    /\ UNCHANGED <<busCell, busHolder, critDepth, panicked, csLine, lastResult>>

\* a mutant of TxnEnter: the Option is not checked, an empty cell is used as a bus
TxnEnter_NoLockCheck(d) ==
    /\ txnPc[d] = "enter"
    /\ critDepth' = critDepth + 1
    /\ busHolder' = busHolder \cup {d}
    /\ txnPc' = [txnPc EXCEPT ![d] = "assert"]
    /\ log' = Append(log, Event("acquire", 0, "ok"))
    /\ UNCHANGED <<txnDev, busCell, panicked, csLine, txnOps, txnIdx, txnRes,
                   txnSpins, lastResult>>

\* a mutant of TxnEnter: the operations start without assert_cs
TxnEnter_SkipAssert(d) ==
    /\ txnPc[d] = "enter"
    /\ critDepth' = critDepth + 1
    /\ busHolder' = busHolder \cup {d}
    /\ IF busCell = "None"
       THEN /\ txnRes' = LockErr
            /\ txnPc' = [txnPc EXCEPT ![d] = "exit"]
            /\ log' = Append(log, Event("acquire", 0, "Lock"))
       ELSE /\ txnRes' = txnRes
            /\ txnPc' = [txnPc EXCEPT ![d] = "ops"]
            /\ log' = Append(log, Event("acquire", 0, "ok"))
    /\ UNCHANGED <<txnDev, busCell, panicked, csLine, txnOps, txnIdx, txnSpins,
                   lastResult>>

\* critical_section::with entered, borrow_ref_mut, as_mut().ok_or(Lock)?
TxnEnter(d) ==
    /\ txnPc[d] = "enter"
    /\ critDepth' = critDepth + 1
    /\ IF busHolder # {}
       THEN \* BorrowMutError: borrow_ref_mut panics
            /\ panicked' = TRUE
            /\ txnPc' = [txnPc EXCEPT ![d] = "panic"]
            /\ UNCHANGED <<busHolder, txnRes, log>>
       ELSE /\ busHolder' = busHolder \cup {d}
            /\ panicked' = panicked
            /\ IF busCell = "None"
               THEN /\ txnRes' = LockErr
                    /\ txnPc' = [txnPc EXCEPT ![d] = "exit"]
                    /\ log' = Append(log, Event("acquire", 0, "Lock"))
               ELSE /\ txnRes' = txnRes
                    /\ txnPc' = [txnPc EXCEPT ![d] = "assert"]
                    /\ log' = Append(log, Event("acquire", 0, "ok"))
    /\ UNCHANGED <<txnDev, busCell, csLine, txnOps, txnIdx, txnSpins, lastResult>>

\* self.assert_cs()?  -- cs.set_low(), a failure mapped to ChipSelect.
\* A failed GPIO write leaves the line as it was.
TxnAssertCs(d) ==
    /\ txnPc[d] = "assert"
    /\ \E ok \in BOOLEAN :
         IF ok
         THEN /\ csLine' = [csLine EXCEPT ![d] = "Low"]
              /\ log' = Append(log, Event("cs_low", 0, "ok"))
              /\ txnPc' = [txnPc EXCEPT ![d] = "ops"]
              /\ txnRes' = txnRes
         ELSE /\ csLine' = csLine
              /\ log' = Append(log, Event("cs_low", 0, "gpio"))
              /\ txnPc' = [txnPc EXCEPT ![d] = "exit"]
              /\ txnRes' = ChipSelectErr
    /\ UNCHANGED <<txnDev, busCell, busHolder, critDepth, panicked, txnOps, txnIdx,
                   txnSpins, lastResult>>

\* a mutant of TxnOp: the error of a bus call is dropped and the loop goes on
TxnOp_IgnoreError(d, delay_ns) ==
    /\ txnPc[d] = "ops"
    /\ txnIdx <= Len(txnOps)
    /\ \E r \in {"ok"} \cup BusErrors :
         log' = Append(log, Event(txnOps[txnIdx], txnIdx,
                                  IF txnOps[txnIdx] = "DelayNs" THEN "ok" ELSE r))
    /\ txnIdx' = txnIdx + 1
    /\ UNCHANGED <<txnDev, busCell, busHolder, critDepth, panicked, csLine, txnOps,
                   txnPc, txnRes, txnSpins, lastResult>>

\* the busy-wait of one DelayNs(delay_ns) on a device whose field is per_tick > 0:
\* delay_in_ticks = delay_ns / ns_per_tick, counted down to 0 one by one
Spin(delay_ns, per_tick) ==
    [delay_ns |-> delay_ns, ns_per_tick |-> per_tick, iterations |-> delay_ns \div per_tick]

\* one turn of "for operation in operations": a bus call whose error is mapped
\* to SpiBus and returned by ?, or the busy-wait of DelayNs(delay_ns), whose
\* division panics when ns_per_tick is 0
TxnOp(d, delay_ns) ==
    /\ txnPc[d] = "ops"
    /\ txnIdx <= Len(txnOps)
    /\ IF txnOps[txnIdx] = "DelayNs"
       THEN IF ns_per_tick[d] = 0
            THEN /\ panicked' = TRUE
                 /\ txnPc' = [txnPc EXCEPT ![d] = "panic"]
                 /\ UNCHANGED <<txnSpins, log, txnIdx, txnRes>>
            ELSE /\ txnSpins' = Append(txnSpins, Spin(delay_ns, ns_per_tick[d]))
                 /\ log' = Append(log, Event("DelayNs", txnIdx, "ok"))
                 /\ txnIdx' = txnIdx + 1
                 /\ UNCHANGED <<txnPc, txnRes, panicked>>
       ELSE \E r \in {"ok"} \cup BusErrors :
              /\ log' = Append(log, Event(txnOps[txnIdx], txnIdx, r))
              /\ txnSpins' = txnSpins
              /\ panicked' = panicked
              /\ IF r = "ok"
                 THEN /\ txnIdx' = txnIdx + 1
                      /\ UNCHANGED <<txnPc, txnRes>>
                 ELSE /\ txnIdx' = txnIdx
                      /\ txnRes' = SpiBusErr(r)
                      /\ txnPc' = [txnPc EXCEPT ![d] = "exit"]
    /\ UNCHANGED <<txnDev, busCell, busHolder, critDepth, csLine, txnOps, lastResult>>

\* a mutant of TxnFlush: an empty operation list is not flushed
TxnFlush_SkipWhenEmpty(d) ==
    /\ txnPc[d] = "ops"
    /\ txnIdx > Len(txnOps)
    /\ \E r \in {"ok"} \cup BusErrors :
         IF txnOps = <<>>
         THEN /\ log' = log
              /\ txnPc' = [txnPc EXCEPT ![d] = "deassert"]
              /\ txnRes' = txnRes
         ELSE /\ log' = Append(log, Event("flush", 0, r))
              /\ IF r = "ok"
                 THEN /\ txnPc' = [txnPc EXCEPT ![d] = "deassert"]
                      /\ txnRes' = txnRes
                 ELSE /\ txnPc' = [txnPc EXCEPT ![d] = "exit"]
                      /\ txnRes' = SpiBusErr(r)
    /\ UNCHANGED <<txnDev, busCell, busHolder, critDepth, panicked, csLine, txnOps,
                   txnIdx, txnSpins, lastResult>>

\* spi_bus.flush().map_err(SpiBus)?  after the last operation
TxnFlush(d) ==
    /\ txnPc[d] = "ops"
    /\ txnIdx > Len(txnOps)
    /\ \E r \in {"ok"} \cup BusErrors :
         /\ log' = Append(log, Event("flush", 0, r))
         /\ IF r = "ok"
            THEN /\ txnPc' = [txnPc EXCEPT ![d] = "deassert"]
                 /\ txnRes' = txnRes
            ELSE /\ txnPc' = [txnPc EXCEPT ![d] = "exit"]
                 /\ txnRes' = SpiBusErr(r)
    /\ UNCHANGED <<txnDev, busCell, busHolder, critDepth, panicked, csLine, txnOps,
                   txnIdx, txnSpins, lastResult>>

\* a mutant of TxnDeassertCs: the result of deassert_cs is dropped
TxnDeassertCs_IgnoreFailure(d) ==
    /\ txnPc[d] = "deassert"
    /\ \E ok \in BOOLEAN :
         IF ok
         THEN /\ csLine' = [csLine EXCEPT ![d] = "High"]
              /\ log' = Append(log, Event("cs_high", 0, "ok"))
         ELSE /\ csLine' = csLine
              /\ log' = Append(log, Event("cs_high", 0, "gpio"))
    /\ txnRes' = Ok
    /\ txnPc' = [txnPc EXCEPT ![d] = "exit"]
    /\ UNCHANGED <<txnDev, busCell, busHolder, critDepth, panicked, txnOps, txnIdx,
                   txnSpins, lastResult>>

\* self.deassert_cs()?; Ok(())
TxnDeassertCs(d) ==
    /\ txnPc[d] = "deassert"
    /\ \E ok \in BOOLEAN :
         IF ok
         THEN /\ csLine' = [csLine EXCEPT ![d] = "High"]
              /\ log' = Append(log, Event("cs_high", 0, "ok"))
              /\ txnRes' = Ok
         ELSE /\ csLine' = csLine
              /\ log' = Append(log, Event("cs_high", 0, "gpio"))
              /\ txnRes' = ChipSelectErr
    /\ txnPc' = [txnPc EXCEPT ![d] = "exit"]
    /\ UNCHANGED <<txnDev, busCell, busHolder, critDepth, panicked, txnOps, txnIdx,
                   txnSpins, lastResult>>

\* a mutant of TxnExit: the RefMut of the bus is leaked instead of dropped
TxnExit_LeakBorrow(d) ==
    /\ txnPc[d] = "exit"
    /\ critDepth' = critDepth - 1
    /\ log' = Append(log, Event("release", 0, "ok"))
    /\ lastResult' = [lastResult EXCEPT ![d] = txnRes]
    /\ txnPc' = [txnPc EXCEPT ![d] = "idle"]
    /\ UNCHANGED <<txnDev, busCell, busHolder, panicked, csLine, txnOps, txnIdx, txnRes,
                   txnSpins>>

\* a mutant of TxnExit: the critical section is not left
TxnExit_KeepsSection(d) ==
    /\ txnPc[d] = "exit"
    /\ busHolder' = busHolder \ {d}
    /\ log' = Append(log, Event("release", 0, "ok"))
    /\ lastResult' = [lastResult EXCEPT ![d] = txnRes]
    /\ txnPc' = [txnPc EXCEPT ![d] = "idle"]
    /\ UNCHANGED <<txnDev, busCell, critDepth, panicked, csLine, txnOps, txnIdx, txnRes,
                   txnSpins>>

\* a mutant of TxnExit: chip-select is released on every exit path
TxnExit_ReleaseCs(d) ==
    /\ txnPc[d] = "exit"
    /\ busHolder' = busHolder \ {d}
    /\ critDepth' = critDepth - 1
    /\ csLine' = [csLine EXCEPT ![d] = "High"]
    /\ log' = Append(log, Event("release", 0, "ok"))
    /\ lastResult' = [lastResult EXCEPT ![d] = txnRes]
    /\ txnPc' = [txnPc EXCEPT ![d] = "idle"]
    /\ UNCHANGED <<txnDev, busCell, panicked, txnOps, txnIdx, txnRes, txnSpins>>

\* the closure ends: the RefMut is dropped, the critical section is left and
\* transaction returns res
TxnExit(d) ==
    /\ txnPc[d] = "exit"
    /\ busHolder' = busHolder \ {d}
    /\ critDepth' = critDepth - 1
    /\ log' = Append(log, Event("release", 0, "ok"))
    /\ lastResult' = [lastResult EXCEPT ![d] = txnRes]
    /\ txnPc' = [txnPc EXCEPT ![d] = "idle"]
    /\ UNCHANGED <<txnDev, busCell, panicked, csLine, txnOps, txnIdx, txnRes, txnSpins>>

\* main.rs:84-85, SPI_BUS.borrow_ref_mut(cs).replace(spi) in a critical section
InstallBus ==
    /\ Idle
    /\ ~panicked
    /\ busCell = "None"
    /\ busCell' = "Some"
    /\ UNCHANGED <<txnDev, busHolder, critDepth, panicked, csLine, txnPc, txnOps, txnIdx,
                   txnRes, txnSpins, log, lastResult>>

BusInit ==
    /\ busCell = "None"      \* static SPI_BUS = Mutex::new(RefCell::new(None))
    /\ busHolder = {}
    /\ critDepth = 0
    /\ panicked = FALSE
    /\ csLine = [d \in Devices |-> "High"]   \* Output::new(cs, Level::High, ..)
    /\ txnPc = [d \in Devices |-> "idle"]
    /\ txnDev = "none"
    /\ txnOps = <<>>
    /\ txnIdx = 1
    /\ txnRes = NoResult
    /\ txnSpins = <<>>
    /\ log = <<>>
    /\ lastResult = [d \in Devices |-> NoResult]

BusNext ==
    \/ InstallBus /\ UNCHANGED <<debVars, fwVars, hlVars, auxVars>>
    \/ \E d \in Devices, operations \in OpLists :
         TxnCall(d, operations) /\ UNCHANGED <<debVars, fwVars, hlVars, auxVars>>
    \/ \E d \in Devices : TxnEnter(d) /\ UNCHANGED <<debVars, fwVars, hlVars, auxVars>>
    \/ \E d \in Devices : TxnAssertCs(d) /\ UNCHANGED <<debVars, fwVars, hlVars, auxVars>>
    \/ \E d \in Devices, delay_ns \in DelayNsChoices :
         TxnOp(d, delay_ns) /\ UNCHANGED <<debVars, fwVars, hlVars, auxVars>>
    \/ \E d \in Devices : TxnFlush(d) /\ UNCHANGED <<debVars, fwVars, hlVars, auxVars>>
    \/ \E d \in Devices : TxnDeassertCs(d) /\ UNCHANGED <<debVars, fwVars, hlVars, auxVars>>
    \/ \E d \in Devices : TxnExit(d) /\ UNCHANGED <<debVars, fwVars, hlVars, auxVars>>

\* SpiPeripheral::new(mutex_bus, cs, n): a caller builds device d with any u32
\* as ns_per_tick, before it runs a transaction on it
SpiPeripheral_new(d, n) ==
    /\ Idle
    /\ ~panicked
    /\ txnDev = "none"
    /\ ns_per_tick' = [ns_per_tick EXCEPT ![d] = n]
    /\ UNCHANGED <<stale, pairs>>
    /\ UNCHANGED <<debVars, busVars, fwVars, hlVars>>

\* the operation lists of the callers that use DelayNs
DelayOpLists == {<<"DelayNs">>, <<"DelayNs", "Write">>, <<"Write", "DelayNs">>}

\* a caller that builds the display's device with an ns_per_tick of its choice and
\* runs transactions with a DelayNs operation on it
DelayNext ==
    \/ InstallBus /\ UNCHANGED <<debVars, fwVars, hlVars, auxVars>>
    \/ \E n \in 0..MaxNsPerTick : SpiPeripheral_new("display", n)
    \/ \E operations \in DelayOpLists :
         TxnCall("display", operations) /\ UNCHANGED <<debVars, fwVars, hlVars, auxVars>>
    \/ \E d \in Devices : TxnEnter(d) /\ UNCHANGED <<debVars, fwVars, hlVars, auxVars>>
    \/ \E d \in Devices : TxnAssertCs(d) /\ UNCHANGED <<debVars, fwVars, hlVars, auxVars>>
    \/ \E d \in Devices, delay_ns \in 0..MaxDelayNs :
         TxnOp(d, delay_ns) /\ UNCHANGED <<debVars, fwVars, hlVars, auxVars>>
    \/ \E d \in Devices : TxnFlush(d) /\ UNCHANGED <<debVars, fwVars, hlVars, auxVars>>
    \/ \E d \in Devices : TxnDeassertCs(d) /\ UNCHANGED <<debVars, fwVars, hlVars, auxVars>>
    \/ \E d \in Devices : TxnExit(d) /\ UNCHANGED <<debVars, fwVars, hlVars, auxVars>>

(***************************************************************************)
(* src/bin/main.rs: main, button_handler, encoder_handler                  *)
(***************************************************************************)

\* Instant::elapsed of timer t after dt more ms, saturating where the
\* comparisons of the firmware no longer tell values apart
Saturation(t) == IF t = "loop_timer" THEN DELAY_LOOP_MS ELSE DEBOUNCE_MS
Later(t, dt) == IF elapsed[t] + dt > Saturation(t) THEN Saturation(t) ELSE elapsed[t] + dt

\* the program points of main
SetupPcs == {"listen_button", "listen_sw", "setup"}
CallPcs == {"init_screen", "first_flush", "flush"}
LoopPcs == {"swap_sw", "reset_counter", "swap_boot", "next_color", "load_bounds", "store_bounds",
            "load_radius", "gate", "flush", "flush_wait"}
Waiting(pc) == CASE pc = "init_screen" -> "init_screen_wait"
                 [] pc = "first_flush" -> "first_flush_wait"
                 [] pc = "flush" -> "flush_wait"
AfterCall(pc) == CASE pc = "init_screen_wait" -> "first_flush"
                   [] pc = "first_flush_wait" -> "loop_timer"
                   [] pc = "flush_wait" -> "swap_sw"

\* the Instants that are still read
Live(t) == CASE t = "debounce_timer" -> mainPc \in SetupPcs
             [] t = "DEBOUNCE_TIMER" -> cell["DEBOUNCE_TIMER"] = "Some"
             [] t = "loop_timer" -> mainPc \in LoopPcs

\* Encode::update: the 4-bit value made of the previous and the current sample
UpdateState(state, clk, dt) ==
    (((state * 4) % U8) + (IF clk THEN 1 ELSE 0) + (IF dt THEN 2 ELSE 0)) % 16

\* Encode::update: the match on the 4-bit value
DirectionOf(state) ==
    CASE state \in {13, 4, 2, 11} -> "Clockwise"
      [] state \in {14, 8, 1, 7} -> "CounterClockwise"
      [] OTHER -> "Rest"

\* `counter as u32` of an i32, as the <<high, low>> 16-bit halves of the u32
AsU32(c) ==
    IF c >= 0 THEN <<c \div 65536, c % 65536>>
    ELSE <<65535 - ((-c - 1) \div 65536), 65535 - ((-c - 1) % 65536)>>

\* main.rs:65-82: handlers registered, debounce_timer = Instant::now()
MainStart ==
    /\ mainPc = "start"
    /\ mainPc' = "listen_button"
    /\ elapsed' = [elapsed EXCEPT !["debounce_timer"] = 0]
    /\ UNCHANGED <<cell, listening, timerStarted, irq, COUNTER, SW_PRESSED, BOOT_PRESSED,
                   hyState, counter>>
    /\ ignored' = FALSE /\ UNCHANGED radius32
    /\ UNCHANGED <<debVars, busVars, hlVars>>

\* main.rs:85-86: boot_button.listen(FallingEdge)
MainListenButton ==
    /\ mainPc = "listen_button"
    /\ mainPc' = "listen_sw"
    /\ listening' = listening \cup {"button"}
    /\ UNCHANGED <<cell, timerStarted, irq, COUNTER, SW_PRESSED, BOOT_PRESSED, hyState,
                   elapsed, counter>>
    /\ ignored' = FALSE /\ UNCHANGED radius32
    /\ UNCHANGED <<debVars, busVars, hlVars>>

\* main.rs:89-95: Encoder::new(clk, dt).add_switch(sw).add_switch_listener(FallingEdge)
MainListenSw ==
    /\ mainPc = "listen_sw"
    /\ mainPc' = "setup"
    /\ listening' = listening \cup {"sw"}
    /\ hyState' = DEFAULT_STATE
    /\ UNCHANGED <<cell, timerStarted, irq, COUNTER, SW_PRESSED, BOOT_PRESSED, elapsed,
                   counter>>
    /\ ignored' = FALSE /\ UNCHANGED radius32
    /\ UNCHANGED <<debVars, busVars, hlVars>>

\* main.rs:98-115: one critical section fills the five cells and starts the timer
MainSetup ==
    /\ mainPc = "setup"
    /\ IrqEnabled
    /\ busHolder = {}
    /\ mainPc' = "init_screen"
    /\ cell' = [c \in Cells |-> "Some"]
    /\ busCell' = "Some"
    /\ elapsed' = [elapsed EXCEPT !["DEBOUNCE_TIMER"] = elapsed["debounce_timer"],
                                  !["debounce_timer"] = 0]
    /\ timerStarted' = TRUE
    /\ UNCHANGED <<listening, irq, COUNTER, SW_PRESSED, BOOT_PRESSED, hyState, counter>>
    /\ UNCHANGED <<busHolder, critDepth, panicked, csLine, txnPc, txnDev, txnOps, txnIdx,
                   txnRes, txnSpins, log, lastResult>>
    /\ ignored' = FALSE /\ UNCHANGED radius32
    /\ UNCHANGED <<debVars, hlVars>>

\* main.rs:119-122, 135-138, 183-188: the display driver sends its buffer or its
\* commands through SpiPeripheral::transaction
MainCallDisplay ==
    /\ mainPc \in CallPcs
    /\ mainPc' = Waiting(mainPc)
    /\ TxnCall("display", DisplayOps)
    /\ UNCHANGED <<cell, listening, timerStarted, irq, COUNTER, SW_PRESSED, BOOT_PRESSED,
                   hyState, elapsed, counter>>
    /\ ignored' = FALSE /\ radius32' = AsU32(MIN_COUNTER)
    /\ UNCHANGED <<debVars, hlVars>>

\* .unwrap() of the driver's result: an error panics
MainUnwrap ==
    /\ mainPc \in {Waiting(pc) : pc \in CallPcs}
    /\ Idle
    /\ ~panicked
    /\ IF lastResult["display"] = Ok
       THEN mainPc' = AfterCall(mainPc) /\ panicked' = panicked
       ELSE mainPc' = "panic" /\ panicked' = TRUE
    /\ UNCHANGED <<cell, listening, timerStarted, irq, COUNTER, SW_PRESSED, BOOT_PRESSED,
                   hyState, elapsed, counter>>
    /\ UNCHANGED <<busCell, busHolder, critDepth, csLine, txnPc, txnDev, txnOps, txnIdx,
                   txnRes, txnSpins, log, lastResult>>
    /\ ignored' = FALSE /\ UNCHANGED radius32
    /\ UNCHANGED <<debVars, hlVars>>

\* main.rs:141: loop_timer = Instant::now()
MainLoopTimer ==
    /\ mainPc = "loop_timer"
    /\ mainPc' = "swap_sw"
    /\ elapsed' = [elapsed EXCEPT !["loop_timer"] = 0]
    /\ UNCHANGED <<cell, listening, timerStarted, irq, COUNTER, SW_PRESSED, BOOT_PRESSED,
                   hyState, counter>>
    /\ ignored' = FALSE /\ UNCHANGED radius32
    /\ UNCHANGED <<debVars, busVars, hlVars>>

\* a mutant of MainSwapSw: the flag is read and left as it is
MainSwapSw_KeepsFlag ==
    /\ mainPc = "swap_sw"
    /\ mainPc' = IF SW_PRESSED THEN "reset_counter" ELSE "swap_boot"
    /\ SW_PRESSED' = SW_PRESSED
    /\ UNCHANGED <<cell, listening, timerStarted, irq, COUNTER, BOOT_PRESSED, hyState,
                   elapsed, counter>>
    /\ ignored' = FALSE /\ UNCHANGED radius32
    /\ UNCHANGED <<debVars, busVars, hlVars>>

\* main.rs:146: SW_PRESSED.swap(false)
MainSwapSw ==
    /\ mainPc = "swap_sw"
    /\ mainPc' = IF SW_PRESSED THEN "reset_counter" ELSE "swap_boot"
    /\ SW_PRESSED' = FALSE
    /\ UNCHANGED <<cell, listening, timerStarted, irq, COUNTER, BOOT_PRESSED, hyState,
                   elapsed, counter>>
    /\ ignored' = FALSE /\ UNCHANGED radius32
    /\ UNCHANGED <<debVars, busVars, hlVars>>

\* main.rs:148: COUNTER.swap(0)
MainResetCounter ==
    /\ mainPc = "reset_counter"
    /\ mainPc' = "swap_boot"
    /\ COUNTER' = 0
    /\ UNCHANGED <<cell, listening, timerStarted, irq, SW_PRESSED, BOOT_PRESSED, hyState,
                   elapsed, counter>>
    /\ ignored' = FALSE /\ UNCHANGED radius32
    /\ UNCHANGED <<debVars, busVars, hlVars>>

\* a mutant of MainSwapBoot: the flag is cleared and the colour is left as it is
MainSwapBoot_NoAction ==
    /\ mainPc = "swap_boot"
    /\ mainPc' = "load_bounds"
    /\ BOOT_PRESSED' = FALSE
    /\ UNCHANGED <<cell, listening, timerStarted, irq, COUNTER, SW_PRESSED, hyState,
                   elapsed, counter>>
    /\ ignored' = FALSE /\ UNCHANGED radius32
    /\ UNCHANGED <<debVars, busVars, hlVars>>

\* main.rs:153: BOOT_PRESSED.swap(false)
MainSwapBoot ==
    /\ mainPc = "swap_boot"
    /\ mainPc' = IF BOOT_PRESSED THEN "next_color" ELSE "load_bounds"
    /\ BOOT_PRESSED' = FALSE
    /\ UNCHANGED <<cell, listening, timerStarted, irq, COUNTER, SW_PRESSED, hyState,
                   elapsed, counter>>
    /\ ignored' = FALSE /\ UNCHANGED radius32
    /\ UNCHANGED <<debVars, busVars, hlVars>>

\* main.rs:155-157: the circle takes the next colour of the list; the colour is
\* not part of the state, nothing else reads it
MainNextColor ==
    /\ mainPc = "next_color"
    /\ mainPc' = "load_bounds"
    /\ UNCHANGED <<cell, listening, timerStarted, irq, COUNTER, SW_PRESSED, BOOT_PRESSED,
                   hyState, elapsed, counter>>
    /\ ignored' = FALSE /\ UNCHANGED radius32
    /\ UNCHANGED <<debVars, busVars, hlVars>>

\* main.rs:161: let counter = COUNTER.load()
MainLoadBounds ==
    /\ mainPc = "load_bounds"
    /\ mainPc' = "store_bounds"
    /\ counter' = COUNTER
    /\ UNCHANGED <<cell, listening, timerStarted, irq, COUNTER, SW_PRESSED, BOOT_PRESSED,
                   hyState, elapsed>>
    /\ ignored' = FALSE /\ UNCHANGED radius32
    /\ UNCHANGED <<debVars, busVars, hlVars>>

\* main.rs:162-168: the store of the bound the loaded value went past
MainStoreBounds ==
    /\ mainPc = "store_bounds"
    /\ mainPc' = "load_radius"
    /\ COUNTER' = IF counter > MAX_COUNTER THEN MAX_COUNTER
                  ELSE IF counter < MIN_COUNTER THEN MIN_COUNTER
                  ELSE COUNTER
    /\ counter' = 0
    /\ UNCHANGED <<cell, listening, timerStarted, irq, SW_PRESSED, BOOT_PRESSED, hyState,
                   elapsed>>
    /\ ignored' = FALSE /\ UNCHANGED radius32
    /\ UNCHANGED <<debVars, busVars, hlVars>>

\* main.rs:172-178: COUNTER is loaded again; radius is set from it when it
\* differs from last_counter, and is last_counter as u32 already when it does not
MainLoadRadius ==
    /\ mainPc = "load_radius"
    /\ mainPc' = "gate"
    /\ UNCHANGED <<cell, listening, timerStarted, irq, COUNTER, SW_PRESSED, BOOT_PRESSED,
                   hyState, elapsed, counter>>
    /\ radius32' = AsU32(COUNTER)
    /\ ignored' = FALSE
    /\ UNCHANGED <<debVars, busVars, hlVars>>

\* main.rs:181-187: the redraw gate and, past it, the circle of radius drawn into
\* the buffer; radius is not read again before main.rs:177 writes it
MainGate ==
    /\ mainPc = "gate"
    /\ IF elapsed["loop_timer"] >= DELAY_LOOP_MS
       THEN /\ mainPc' = "flush"
            /\ elapsed' = [elapsed EXCEPT !["loop_timer"] = 0]
            /\ radius32' = radius32
       ELSE /\ mainPc' = "swap_sw"
            /\ elapsed' = elapsed
            /\ radius32' = AsU32(MIN_COUNTER)
    /\ UNCHANGED <<cell, listening, timerStarted, irq, COUNTER, SW_PRESSED, BOOT_PRESSED,
                   hyState, counter>>
    /\ ignored' = FALSE
    /\ UNCHANGED <<debVars, busVars, hlVars>>

\* button_handler, main.rs:203-207: the timestamp is there and younger than the
\* debounce window
InWindow == cell["DEBOUNCE_TIMER"] = "Some" /\ elapsed["DEBOUNCE_TIMER"] < DEBOUNCE_MS

\* a mutant of BootSeen: the flag is raised whatever the button's interrupt bit
BootSeen_Unasked == cell["BUTTON"] = "Some"

\* button_handler, main.rs:218-219: the button is there and its interrupt is set
BootSeen == cell["BUTTON"] = "Some" /\ "button" \in irq

\* button_handler, main.rs:228-229, with EncoderListener::has_been_pressed
\* (hardware/rotary_encoder.rs:291-298): the encoder is there and the interrupt
\* of its switch is set
SwSeen == cell["HY_040"] = "Some" /\ "sw" \in irq

\* main.rs:197-235; the whole handler is one critical section
button_handler ==
    /\ IrqEnabled
    /\ irq \cap {"button", "sw"} # {}
    /\ IF InWindow
       THEN /\ UNCHANGED <<cell, elapsed, irq, BOOT_PRESSED, SW_PRESSED>>
            /\ ignored' = TRUE
       ELSE /\ cell' = [cell EXCEPT !["DEBOUNCE_TIMER"] = "Some"]
            /\ elapsed' = [elapsed EXCEPT !["DEBOUNCE_TIMER"] = 0]
            /\ BOOT_PRESSED' = (BOOT_PRESSED \/ BootSeen)
            /\ SW_PRESSED' = (SW_PRESSED \/ SwSeen)
            /\ irq' = irq \ ((IF BootSeen THEN {"button"} ELSE {})
                             \cup (IF SwSeen THEN {"sw"} ELSE {}))
            /\ ignored' = FALSE
    /\ UNCHANGED <<mainPc, listening, timerStarted, COUNTER, hyState, counter>>
    /\ UNCHANGED radius32
    /\ UNCHANGED <<debVars, busVars, hlVars>>

\* a mutant of encoder_handler: a counter-clockwise step takes two
encoder_handler_DoubleBack ==
    /\ IrqEnabled
    /\ "timer" \in irq
    /\ IF cell["HY_040"] = "Some" /\ cell["ENCODER_TIMER"] = "Some"
       THEN \E clk, dt \in BOOLEAN :
              LET current_state == UpdateState(hyState, clk, dt)
                  step == CASE DirectionOf(current_state) = "Clockwise" -> 1
                            [] DirectionOf(current_state) = "CounterClockwise" -> -2
                            [] OTHER -> 0
              IN /\ COUNTER + step \in -MaxCount..MaxCount
                 /\ hyState' = current_state
                 /\ COUNTER' = COUNTER + step
                 /\ irq' = irq \ {"timer"}
       ELSE UNCHANGED <<hyState, COUNTER, irq>>
    /\ UNCHANGED <<mainPc, cell, listening, timerStarted, SW_PRESSED, BOOT_PRESSED, elapsed,
                   counter>>
    /\ ignored' = FALSE /\ UNCHANGED radius32
    /\ UNCHANGED <<debVars, busVars, hlVars>>

\* a mutant of encoder_handler: the interrupt is cleared only after a rotation
encoder_handler_ClearOnStep ==
    /\ IrqEnabled
    /\ "timer" \in irq
    /\ IF cell["HY_040"] = "Some" /\ cell["ENCODER_TIMER"] = "Some"
       THEN \E clk, dt \in BOOLEAN :
              LET current_state == UpdateState(hyState, clk, dt)
                  step == CASE DirectionOf(current_state) = "Clockwise" -> 1
                            [] DirectionOf(current_state) = "CounterClockwise" -> -1
                            [] OTHER -> 0
              IN /\ COUNTER + step \in -MaxCount..MaxCount
                 /\ hyState' = current_state
                 /\ COUNTER' = COUNTER + step
                 /\ irq' = IF step # 0 THEN irq \ {"timer"} ELSE irq
       ELSE UNCHANGED <<hyState, COUNTER, irq>>
    /\ UNCHANGED <<mainPc, cell, listening, timerStarted, SW_PRESSED, BOOT_PRESSED, elapsed,
                   counter>>
    /\ ignored' = FALSE /\ UNCHANGED radius32
    /\ UNCHANGED <<debVars, busVars, hlVars>>

\* main.rs:239-263, with Encode::update (hardware/rotary_encoder.rs:52-75); the
\* whole handler is one critical section
encoder_handler ==
    /\ IrqEnabled
    /\ "timer" \in irq
    /\ IF cell["HY_040"] = "Some" /\ cell["ENCODER_TIMER"] = "Some"
       THEN \E clk, dt \in BOOLEAN :
              LET current_state == UpdateState(hyState, clk, dt)
                  step == CASE DirectionOf(current_state) = "Clockwise" -> 1
                            [] DirectionOf(current_state) = "CounterClockwise" -> -1
                            [] OTHER -> 0
              IN /\ COUNTER + step \in -MaxCount..MaxCount
                 /\ hyState' = current_state
                 /\ COUNTER' = COUNTER + step
                 /\ irq' = irq \ {"timer"}
       ELSE UNCHANGED <<hyState, COUNTER, irq>>
    /\ UNCHANGED <<mainPc, cell, listening, timerStarted, SW_PRESSED, BOOT_PRESSED, elapsed,
                   counter>>
    /\ ignored' = FALSE /\ UNCHANGED radius32
    /\ UNCHANGED <<debVars, busVars, hlVars>>

\* the critical sections of main.rs and of SpiPeripheral::transaction
Sections == {"setup", "button_handler", "encoder_handler", "transaction"}

\* the borrow_ref_mut calls of a critical section, in order (main.rs:102-109,
\* 200-212, 242-243; spi_peripheral.rs:98): a "temp" RefMut is dropped at the end
\* of its statement, a "let" RefMut at the end of the section
BorrowsOf(section) ==
    CASE section = "setup" ->
           << <<"DEBOUNCE_TIMER", "temp">>, <<"BUTTON", "temp">>, <<"HY_040", "temp">>,
              <<"SPI_BUS", "temp">>, <<"ENCODER_TIMER", "temp">>,
              <<"ENCODER_TIMER", "let">> >>
      [] section = "button_handler" ->
           << <<"DEBOUNCE_TIMER", "let">>, <<"BUTTON", "let">>, <<"HY_040", "let">> >>
      [] section = "encoder_handler" ->
           << <<"HY_040", "let">>, <<"ENCODER_TIMER", "let">> >>
      [] section = "transaction" ->
           << <<"SPI_BUS", "let">> >>

\* RefCell::borrow_mut panics (BorrowMutError) when the cell has a live RefMut:
\* does one of the borrows from the i-th on find its cell in held?
RECURSIVE DoubleBorrow(_, _, _)
DoubleBorrow(borrows, i, held) ==
    IF i > Len(borrows) THEN FALSE
    ELSE IF borrows[i][1] \in held THEN TRUE
    ELSE DoubleBorrow(borrows, i + 1,
                      IF borrows[i][2] = "let" THEN held \cup {borrows[i][1]} ELSE held)

\* the cells with a live RefMut between two steps: SPI_BUS during a transaction
Held == IF busHolder # {} THEN {"SPI_BUS"} ELSE {}

\* the hardware: a falling edge on a listening line sets its status bit
Edge(line) ==
    /\ line \in listening
    /\ line \notin irq
    /\ irq' = irq \cup {line}
    /\ UNCHANGED <<mainPc, cell, listening, timerStarted, COUNTER, SW_PRESSED, BOOT_PRESSED,
                   hyState, elapsed, counter>>
    /\ ignored' = FALSE /\ UNCHANGED radius32
    /\ UNCHANGED <<debVars, busVars, hlVars>>

\* the hardware: the started periodic timer reaches its period
TimerFire ==
    /\ timerStarted
    /\ "timer" \notin irq
    /\ irq' = irq \cup {"timer"}
    /\ UNCHANGED <<mainPc, cell, listening, timerStarted, COUNTER, SW_PRESSED, BOOT_PRESSED,
                   hyState, elapsed, counter>>
    /\ ignored' = FALSE /\ UNCHANGED radius32
    /\ UNCHANGED <<debVars, busVars, hlVars>>

\* the clock moves on
Tick ==
    /\ \E dt \in TimeSteps :
         elapsed' = [t \in Timers |-> IF Live(t) THEN Later(t, dt) ELSE elapsed[t]]
    /\ elapsed' # elapsed
    /\ UNCHANGED <<mainPc, cell, listening, timerStarted, irq, COUNTER, SW_PRESSED,
                   BOOT_PRESSED, hyState, counter>>
    /\ ignored' = FALSE /\ UNCHANGED radius32
    /\ UNCHANGED <<debVars, busVars, hlVars>>

FwInit ==
    /\ mainPc = "start"
    /\ cell = [c \in Cells |-> "None"]      \* Mutex::new(RefCell::new(None))
    /\ listening = {}
    /\ timerStarted = FALSE
    /\ irq = {}
    /\ COUNTER = 0                          \* AtomicI32::new(0)
    /\ SW_PRESSED = FALSE
    /\ BOOT_PRESSED = FALSE
    /\ hyState = DEFAULT_STATE
    /\ elapsed = [t \in Timers |-> 0]
    /\ counter = 0
    /\ radius32 = AsU32(MIN_COUNTER)         \* let mut radius = MIN_COUNTER as u32
    /\ ignored = FALSE

FwNext ==
    \/ MainStart /\ UNCHANGED auxVars
    \/ MainListenButton /\ UNCHANGED auxVars
    \/ MainListenSw /\ UNCHANGED auxVars
    \/ MainSetup /\ UNCHANGED auxVars
    \/ MainCallDisplay /\ UNCHANGED auxVars
    \/ MainUnwrap /\ UNCHANGED auxVars
    \/ MainLoopTimer /\ UNCHANGED auxVars
    \/ MainSwapSw /\ UNCHANGED auxVars
    \/ MainResetCounter /\ UNCHANGED auxVars
    \/ MainSwapBoot /\ UNCHANGED auxVars
    \/ MainNextColor /\ UNCHANGED auxVars
    \/ MainLoadBounds /\ UNCHANGED auxVars
    \/ MainStoreBounds /\ UNCHANGED auxVars
    \/ MainLoadRadius /\ UNCHANGED auxVars
    \/ MainGate /\ UNCHANGED auxVars
    \/ \E d \in Devices : TxnEnter(d) /\ UNCHANGED <<debVars, fwVars, hlVars, auxVars>>
    \/ \E d \in Devices : TxnAssertCs(d) /\ UNCHANGED <<debVars, fwVars, hlVars, auxVars>>
    \/ \E d \in Devices, delay_ns \in DelayNsChoices :
         TxnOp(d, delay_ns) /\ UNCHANGED <<debVars, fwVars, hlVars, auxVars>>
    \/ \E d \in Devices : TxnFlush(d) /\ UNCHANGED <<debVars, fwVars, hlVars, auxVars>>
    \/ \E d \in Devices : TxnDeassertCs(d) /\ UNCHANGED <<debVars, fwVars, hlVars, auxVars>>
    \/ \E d \in Devices : TxnExit(d) /\ UNCHANGED <<debVars, fwVars, hlVars, auxVars>>
    \/ button_handler /\ UNCHANGED auxVars
    \/ encoder_handler /\ UNCHANGED auxVars
    \/ \E line \in {"button", "sw"} : Edge(line) /\ UNCHANGED auxVars
    \/ TimerFire /\ UNCHANGED auxVars
    \/ Tick /\ UNCHANGED auxVars

\* the steps of main: its own and those of the transactions it runs
FwMain ==
    \/ MainStart /\ UNCHANGED auxVars
    \/ MainListenButton /\ UNCHANGED auxVars
    \/ MainListenSw /\ UNCHANGED auxVars
    \/ MainSetup /\ UNCHANGED auxVars
    \/ MainCallDisplay /\ UNCHANGED auxVars
    \/ MainUnwrap /\ UNCHANGED auxVars
    \/ MainLoopTimer /\ UNCHANGED auxVars
    \/ MainSwapSw /\ UNCHANGED auxVars
    \/ MainResetCounter /\ UNCHANGED auxVars
    \/ MainSwapBoot /\ UNCHANGED auxVars
    \/ MainNextColor /\ UNCHANGED auxVars
    \/ MainLoadBounds /\ UNCHANGED auxVars
    \/ MainStoreBounds /\ UNCHANGED auxVars
    \/ MainLoadRadius /\ UNCHANGED auxVars
    \/ MainGate /\ UNCHANGED auxVars
    \/ \E d \in Devices : TxnEnter(d) /\ UNCHANGED <<debVars, fwVars, hlVars, auxVars>>
    \/ \E d \in Devices : TxnAssertCs(d) /\ UNCHANGED <<debVars, fwVars, hlVars, auxVars>>
    \/ \E d \in Devices, delay_ns \in DelayNsChoices :
         TxnOp(d, delay_ns) /\ UNCHANGED <<debVars, fwVars, hlVars, auxVars>>
    \/ \E d \in Devices : TxnFlush(d) /\ UNCHANGED <<debVars, fwVars, hlVars, auxVars>>
    \/ \E d \in Devices : TxnDeassertCs(d) /\ UNCHANGED <<debVars, fwVars, hlVars, auxVars>>
    \/ \E d \in Devices : TxnExit(d) /\ UNCHANGED <<debVars, fwVars, hlVars, auxVars>>

\* main, the handler of the two buttons and what feeds it
LiveNext ==
    \/ FwMain
    \/ button_handler /\ UNCHANGED auxVars
    \/ \E line \in {"button", "sw"} : Edge(line) /\ UNCHANGED auxVars
    \/ Tick /\ UNCHANGED auxVars

\* stale after an edge on line: the bit it sets dates from inside the window
\* when the timestamp of button_handler is younger than DEBOUNCE_MS
StaleAfterEdge(line) == IF InWindow THEN [stale EXCEPT ![line] = "edge"] ELSE stale

\* stale after a run of button_handler: a run inside the window leaves the bits
\* as it found them (main.rs:203-207), a run past it clears the bits it serves
StaleAfterHandler ==
    IF InWindow
    THEN [line \in {"button", "sw"} |->
            IF line \in irq /\ stale[line] = "edge" THEN "ignored" ELSE stale[line]]
    ELSE [line \in {"button", "sw"} |->
            IF (line = "button" /\ BootSeen) \/ (line = "sw" /\ SwSeen)
            THEN "none" ELSE stale[line]]

\* the firmware of src/bin/main.rs with the history of its interrupt bits
IrqNext ==
    \/ MainStart /\ UNCHANGED auxVars
    \/ MainListenButton /\ UNCHANGED auxVars
    \/ MainListenSw /\ UNCHANGED auxVars
    \/ MainSetup /\ UNCHANGED auxVars
    \/ MainCallDisplay /\ UNCHANGED auxVars
    \/ MainUnwrap /\ UNCHANGED auxVars
    \/ MainLoopTimer /\ UNCHANGED auxVars
    \/ MainSwapSw /\ UNCHANGED auxVars
    \/ MainResetCounter /\ UNCHANGED auxVars
    \/ MainSwapBoot /\ UNCHANGED auxVars
    \/ MainNextColor /\ UNCHANGED auxVars
    \/ MainLoadBounds /\ UNCHANGED auxVars
    \/ MainStoreBounds /\ UNCHANGED auxVars
    \/ MainLoadRadius /\ UNCHANGED auxVars
    \/ MainGate /\ UNCHANGED auxVars
    \/ \E d \in Devices : TxnEnter(d) /\ UNCHANGED <<debVars, fwVars, hlVars, auxVars>>
    \/ \E d \in Devices : TxnAssertCs(d) /\ UNCHANGED <<debVars, fwVars, hlVars, auxVars>>
    \/ \E d \in Devices, delay_ns \in DelayNsChoices :
         TxnOp(d, delay_ns) /\ UNCHANGED <<debVars, fwVars, hlVars, auxVars>>
    \/ \E d \in Devices : TxnFlush(d) /\ UNCHANGED <<debVars, fwVars, hlVars, auxVars>>
    \/ \E d \in Devices : TxnDeassertCs(d) /\ UNCHANGED <<debVars, fwVars, hlVars, auxVars>>
    \/ \E d \in Devices : TxnExit(d) /\ UNCHANGED <<debVars, fwVars, hlVars, auxVars>>
    \/ button_handler /\ stale' = StaleAfterHandler /\ UNCHANGED <<ns_per_tick, pairs>>
    \/ encoder_handler /\ UNCHANGED auxVars
    \/ \E line \in {"button", "sw"} :
         Edge(line) /\ stale' = StaleAfterEdge(line) /\ UNCHANGED <<ns_per_tick, pairs>>
    \/ TimerFire /\ UNCHANGED auxVars
    \/ Tick /\ UNCHANGED auxVars

(***************************************************************************)
(* hl_driver/src/switch.rs                                                 *)
(***************************************************************************)

\* the two switch objects of the model
SwitchKinds == {"Switch", "DebouncedSwitch"}
\* embedded_hal::digital::PinState
PinStates == {"High", "Low"}
\* the results of InputPin::is_high: Ok(true), Ok(false), Err(_)
PinReads == {"Ok_true", "Ok_false", "Err"}

\* b == bool::from(self.pressed_state), for a successful read
AtPressedLevel(read) == (read = "Ok_true") = (pressed_state = "High")

\* a mutant of SwitchStateOf: a failed read is taken for a released switch
SwitchStateOf_FaultReleased(read) ==
    IF AtPressedLevel(read) /\ read # "Err" THEN "Pressed" ELSE "Released"

\* Switch::get_current_state: the match on self.pin.is_high()
SwitchStateOf(read) ==
    IF read = "Err" THEN "Faulty"
    ELSE IF AtPressedLevel(read) THEN "Pressed" ELSE "Released"

\* a mutant of SwitchStateFrom: a register in Transition counts as a press
SwitchStateFrom_TransitionPressed(debounce_state) ==
    CASE debounce_state = "Loaded" -> "Pressed"
      [] debounce_state = "Transition" -> "Pressed"
      [] debounce_state = "Unloaded" -> "Released"

\* DebouncedSwitch::get_current_state: the match on self.debouncer.get_state()
SwitchStateFrom(debounce_state) ==
    CASE debounce_state = "Loaded" -> "Pressed"
      [] debounce_state = "Transition" -> "Transition"
      [] debounce_state = "Unloaded" -> "Released"

\* a mutant of Debounced: a failed read shifts a false sample in
Debounced_FaultSampled(read) ==
    ShiftIn(debouncer, read # "Err" /\ AtPressedLevel(read))

\* DebouncedSwitch::get_current_state: the register it leaves; only a
\* successful read is given to debounce
Debounced(read) ==
    IF read = "Err" THEN debouncer ELSE ShiftIn(debouncer, AtPressedLevel(read))

\* DebouncedSwitch::get_current_state: the value it returns
DebouncedStateOf(read) ==
    IF read = "Err" THEN "Faulty"
    ELSE SwitchStateFrom(DebounceStateFrom(Debounced(read)))

\* one entry of polls: the call, what the pin read gave, the SwitchState the
\* call computed, what it returned, and the fields of the two switches after it
Poll(sw, method, read, current_state, ret, reg, last) ==
    [sw |-> sw, method |-> method, read |-> read, state |-> current_state, ret |-> ret,
     debouncer |-> reg, last_state |-> last]

\* a mutant of WasPressed: every poll that reads Pressed reports a press
WasPressed_Level(last, current_state) == current_state = "Pressed"

\* has_been_pressed: was_pressed
WasPressed(last, current_state) == last # "Pressed" /\ current_state = "Pressed"

\* Result<bool, SwitchError>
OkBool(b) == IF b THEN "Ok_true" ELSE "Ok_false"
ErrReadPinState == "Err_ReadPinState"

\* Switch::new(pin, pressed_state) and .with_debounce(Debouncer::default()) for the
\* second switch
Switch_new(pin_state) ==
    /\ pressed_state = "none"
    /\ pressed_state' = pin_state
    /\ last_state' = [sw \in SwitchKinds |-> "Released"]
    /\ debouncer' = 0
    /\ polls' = <<>>
    /\ UNCHANGED <<debVars, busVars, fwVars, encVars, focusVars>>

\* Switch::get_current_state
Switch_get_current_state(read) ==
    /\ pressed_state # "none"
    /\ polls' = Append(polls, Poll("Switch", "get_current_state", read, SwitchStateOf(read),
                                   SwitchStateOf(read), debouncer, last_state))
    /\ UNCHANGED <<pressed_state, last_state, debouncer>>
    /\ UNCHANGED <<debVars, busVars, fwVars, encVars, focusVars>>

\* Switch::has_been_pressed
Switch_has_been_pressed(read) ==
    /\ pressed_state # "none"
    /\ LET current_state == SwitchStateOf(read)
           last == IF current_state = "Faulty" THEN last_state
                   ELSE [last_state EXCEPT !["Switch"] = current_state]
           ret == IF current_state = "Faulty" THEN ErrReadPinState
                  ELSE OkBool(WasPressed(last_state["Switch"], current_state))
       IN /\ last_state' = last
          /\ polls' = Append(polls, Poll("Switch", "has_been_pressed", read, current_state,
                                         ret, debouncer, last))
    /\ UNCHANGED <<pressed_state, debouncer>>
    /\ UNCHANGED <<debVars, busVars, fwVars, encVars, focusVars>>

\* DebouncedSwitch::get_current_state
DebouncedSwitch_get_current_state(read) ==
    /\ pressed_state # "none"
    /\ debouncer' = Debounced(read)
    /\ polls' = Append(polls, Poll("DebouncedSwitch", "get_current_state", read,
                                   DebouncedStateOf(read), DebouncedStateOf(read),
                                   Debounced(read), last_state))
    /\ UNCHANGED <<pressed_state, last_state>>
    /\ UNCHANGED <<debVars, busVars, fwVars, encVars, focusVars>>

\* DebouncedSwitch::has_been_pressed
DebouncedSwitch_has_been_pressed(read) ==
    /\ pressed_state # "none"
    /\ LET current_state == DebouncedStateOf(read)
           last == IF current_state = "Faulty" THEN last_state
                   ELSE [last_state EXCEPT !["DebouncedSwitch"] = current_state]
           ret == IF current_state = "Faulty" THEN ErrReadPinState
                  ELSE OkBool(WasPressed(last_state["DebouncedSwitch"], current_state))
       IN /\ debouncer' = Debounced(read)
          /\ last_state' = last
          /\ polls' = Append(polls, Poll("DebouncedSwitch", "has_been_pressed", read,
                                         current_state, ret, Debounced(read), last))
    /\ UNCHANGED pressed_state
    /\ UNCHANGED <<debVars, busVars, fwVars, encVars, focusVars>>

SwInit ==
    /\ pressed_state = "none"
    /\ last_state = [sw \in SwitchKinds |-> "Released"]
    /\ debouncer = 0
    /\ polls = <<>>

\* the two switches polled in any order, through both methods, with any read
SwNext ==
    \/ \E pin_state \in PinStates : Switch_new(pin_state) /\ UNCHANGED auxVars
    \/ \E read \in PinReads :
         Len(polls) < MaxPolls /\ Switch_get_current_state(read) /\ UNCHANGED auxVars
    \/ \E read \in PinReads :
         Len(polls) < MaxPolls /\ Switch_has_been_pressed(read) /\ UNCHANGED auxVars
    \/ \E read \in PinReads :
         /\ Len(polls) < MaxPolls
         /\ DebouncedSwitch_get_current_state(read)
         /\ UNCHANGED auxVars
    \/ \E read \in PinReads :
         /\ Len(polls) < MaxPolls
         /\ DebouncedSwitch_has_been_pressed(read)
         /\ UNCHANGED auxVars

\* every call made so far was `method`
Only(method) == \A i \in DOMAIN polls : polls[i].method = method

\* the DebouncedSwitch polled through one method, every read successful
HoldNext ==
    \/ \E pin_state \in PinStates : Switch_new(pin_state) /\ UNCHANGED auxVars
    \/ \E read \in PinReads \ {"Err"} :
         /\ Len(polls) < MaxHold
         /\ Only("get_current_state")
         /\ DebouncedSwitch_get_current_state(read)
         /\ UNCHANGED auxVars
    \/ \E read \in PinReads \ {"Err"} :
         /\ Len(polls) < MaxHold
         /\ Only("has_been_pressed")
         /\ DebouncedSwitch_has_been_pressed(read)
         /\ UNCHANGED auxVars

\* the polls so far whose pin read failed
Faults == {i \in DOMAIN polls : polls[i].read = "Err"}

\* the DebouncedSwitch polled through has_been_pressed alone, a read may fail
PressNext ==
    \/ \E pin_state \in PinStates : Switch_new(pin_state) /\ UNCHANGED auxVars
    \/ \E read \in PinReads :
         /\ Len(polls) < MaxHold
         /\ read = "Err" => Cardinality(Faults) < MaxFaults
         /\ DebouncedSwitch_has_been_pressed(read)
         /\ UNCHANGED auxVars

(***************************************************************************)
(* hl_driver/src/encoder.rs, and Encode::update of hardware/rotary_encoder *)
(***************************************************************************)

\* a mutant of EncodeState: clk on bit 0 and dt on bit 1
EncodeState_SwappedLines(state, clk, dt) ==
    (((state * 4) % U8) + (IF clk THEN 1 ELSE 0) + (IF dt THEN 2 ELSE 0)) % 16

\* a mutant of EncodeState: the value is not cut to 4 bits
EncodeState_NoMask(state, clk, dt) ==
    ((state * 4) % U8) + (IF clk THEN 2 ELSE 0) + (IF dt THEN 1 ELSE 0)

\* Hy040::encode: current_state, a u8 shifted left by 2, bit 1 set from clk,
\* bit 0 set from dt, then & 0x0F
EncodeState(state, clk, dt) ==
    (((state * 4) % U8) + (IF clk THEN 2 ELSE 0) + (IF dt THEN 1 ELSE 0)) % 16

\* a mutant of DirectionFrom: 13 is not in the table
DirectionFrom_Without13(current_state) ==
    CASE current_state \in {4, 2, 11} -> "Clockwise"
      [] current_state \in {14, 8, 1, 7} -> "CounterClockwise"
      [] OTHER -> "Rest"

\* a mutant of DirectionFrom: the double step 0b1100 counts as a rotation
DirectionFrom_With12(current_state) ==
    CASE current_state \in {13, 4, 2, 11, 12} -> "Clockwise"
      [] current_state \in {14, 8, 1, 7} -> "CounterClockwise"
      [] OTHER -> "Rest"

\* Hy040::encode: the match on current_state
DirectionFrom(current_state) ==
    CASE current_state \in {13, 4, 2, 11} -> "Clockwise"
      [] current_state \in {14, 8, 1, 7} -> "CounterClockwise"
      [] OTHER -> "Rest"

\* one entry of encodes
Call(fn, clk, dt, before, after, ret) ==
    [fn |-> fn, clk |-> clk, dt |-> dt, before |-> before, after |-> after, ret |-> ret]

\* a call panicked: the thread has stopped
Panicked == \E i \in DOMAIN encodes : encodes[i].ret = "panic"

\* Hy040::encode; is_high().expect("Should not fail") panics on a failed read,
\* before self.state is assigned
encode(clk, dt) ==
    /\ ~Panicked
    /\ IF clk = "Err" \/ dt = "Err"
       THEN /\ hy040' = hy040
            /\ encodes' = Append(encodes, Call("encode", clk, dt, hy040, hy040, "panic"))
       ELSE LET current_state == EncodeState(hy040, clk = "Ok_true", dt = "Ok_true")
            IN /\ hy040' = current_state
               /\ encodes' = Append(encodes, Call("encode", clk, dt, hy040, current_state,
                                                  DirectionFrom(current_state)))
    /\ UNCHANGED <<debVars, busVars, fwVars, swVars, focusVars>>

\* Encode::update of the firmware's EncoderListener; esp_hal's Input::is_high
\* returns a bool
update(clk, dt) ==
    /\ ~Panicked
    /\ LET current_state == UpdateState(hyState, clk = "Ok_true", dt = "Ok_true")
       IN /\ hyState' = current_state
          /\ encodes' = Append(encodes, Call("update", clk, dt, hyState, current_state,
                                             DirectionOf(current_state)))
    /\ UNCHANGED <<mainPc, cell, listening, timerStarted, irq, COUNTER, SW_PRESSED,
                   BOOT_PRESSED, elapsed, counter, radius32, ignored>>
    /\ UNCHANGED <<debVars, busVars, swVars, hy040, focusVars>>

\* Hy040::new(clk, dt)
EncInit ==
    /\ hy040 = DEFAULT_STATE
    /\ encodes = <<>>

EncNext ==
    \/ \E clk, dt \in PinReads :
         Len(encodes) < MaxCalls /\ encode(clk, dt) /\ UNCHANGED auxVars
    \/ \E clk, dt \in PinReads \ {"Err"} :
         Len(encodes) < MaxCalls /\ update(clk, dt) /\ UNCHANGED auxVars

\* the two decoders read the same two lines at the same tick: Hy040::encode of
\* hl_driver and Encode::update of the firmware, each on its own state
SampleBoth(clk, dt) ==
    /\ Len(pairs) < MaxPairs
    /\ hy040' = EncodeState(hy040, clk, dt)
    /\ hyState' = UpdateState(hyState, clk, dt)
    /\ pairs' = Append(pairs, [clk |-> clk, dt |-> dt,
                               encode |-> DirectionFrom(EncodeState(hy040, clk, dt)),
                               update |-> DirectionOf(UpdateState(hyState, clk, dt))])
    /\ UNCHANGED <<mainPc, cell, listening, timerStarted, irq, COUNTER, SW_PRESSED,
                   BOOT_PRESSED, elapsed, counter, radius32, ignored>>
    /\ UNCHANGED <<debVars, busVars, swVars, encodes, focusVars, ns_per_tick, stale>>

PairNext == \E clk, dt \in BOOLEAN : SampleBoth(clk, dt)

(***************************************************************************)
(* focus/src/bin/main.rs: main, switch_handler, encoder_isr                *)
(***************************************************************************)

\* the variables of src/bin/main.rs that are not the platform's
srcVars == <<mainPc, cell, listening, COUNTER, SW_PRESSED, BOOT_PRESSED, hyState, elapsed,
             counter, radius32, ignored>>

FocusCells == {"HY040", "HY040_TIMER"}

\* i32::clamp(MIN_RADIUS, MAX_RADIUS)
Clamp(r) == IF r < MIN_RADIUS THEN MIN_RADIUS ELSE IF r > MAX_RADIUS THEN MAX_RADIUS ELSE r

\* a mutant of StepOf: a clockwise step counts twice
StepOf_Doubled(direction) == CASE direction = "Clockwise" -> 2
                               [] direction = "CounterClockwise" -> -1
                               [] OTHER -> 0

\* the change encoder_isr makes to CIRCLE_RADIUS for a direction
StepOf(direction) == CASE direction = "Clockwise" -> 1
                       [] direction = "CounterClockwise" -> -1
                       [] OTHER -> 0

\* one entry of ticks: the two reads, the direction decoded, CIRCLE_RADIUS
\* before and after, and the timer's interrupt bit on return
TickOf(clk, dt, ret, before, after, pending) ==
    [clk |-> clk, dt |-> dt, ret |-> ret, before |-> before, after |-> after,
     pending |-> pending]

\* main.rs:65-74: init_switches and init_hy040; the two switches are pressed at
\* PinState::Low. The switch of the encoder changes only the circle's colour,
\* which nothing else reads: it is left out, with the colour.
FocusStart ==
    /\ focusPc = "start"
    /\ focusPc' = "setup"
    /\ pressed_state' = "Low"
    /\ last_state' = [sw \in SwitchKinds |-> "Released"]
    /\ debouncer' = 0
    /\ polls' = <<>>
    /\ hy040' = DEFAULT_STATE
    /\ UNCHANGED <<focusCell, CIRCLE_RADIUS, radius, ticks, sinceDraw, encodes>>
    /\ UNCHANGED <<debVars, busVars, fwVars>>

\* main.rs:76-96: one critical section fills the three cells and starts the timer
FocusSetup ==
    /\ focusPc = "setup"
    /\ IrqEnabled
    /\ busHolder = {}
    /\ focusPc' = "init_screen"
    /\ focusCell' = [c \in FocusCells |-> "Some"]
    /\ busCell' = "Some"
    /\ timerStarted' = TRUE
    /\ UNCHANGED <<CIRCLE_RADIUS, radius, ticks, sinceDraw, irq, srcVars>>
    /\ UNCHANGED <<busHolder, critDepth, panicked, csLine, txnPc, txnDev, txnOps, txnIdx,
                   txnRes, txnSpins, log, lastResult>>
    /\ UNCHANGED <<debVars, swVars, encVars>>

\* main.rs:99-114: init_screen, reset, init_with_addr_mode, init_background; and
\* main.rs:129-137: fill, the circle of radius drawn into the buffer, flush. The
\* driver goes through SpiPeripheral::transaction, whose critical section lets no
\* handler in: one step here. A bus error makes .unwrap() panic.
FocusDisplay(result) ==
    /\ focusPc \in {"init_screen", "flush"}
    /\ ~panicked
    /\ busCell = "Some"
    /\ IrqEnabled
    /\ IF result = Ok
       THEN focusPc' = "switch_handler" /\ panicked' = panicked
       ELSE focusPc' = "panic" /\ panicked' = TRUE
    /\ radius' = 0
    /\ sinceDraw' = IF focusPc = "flush" THEN 0 ELSE sinceDraw
    /\ UNCHANGED <<focusCell, CIRCLE_RADIUS, ticks>>
    /\ UNCHANGED <<busCell, busHolder, critDepth, csLine, txnPc, txnDev, txnOps, txnIdx,
                   txnRes, txnSpins, log, lastResult>>
    /\ UNCHANGED <<debVars, fwVars, swVars, encVars>>

\* main.rs:119, 144-163: boot_button.has_been_pressed().unwrap() and the store of
\* MIN_RADIUS when it is true; esp_hal's Input::is_high does not fail
switch_handler(read) ==
    /\ focusPc = "switch_handler"
    /\ LET current_state == DebouncedStateOf(read)
           was_pressed == WasPressed(last_state["DebouncedSwitch"], current_state)
           last == [last_state EXCEPT !["DebouncedSwitch"] = current_state]
       IN /\ debouncer' = Debounced(read)
          /\ last_state' = last
          /\ polls' = Append(polls, Poll("DebouncedSwitch", "has_been_pressed", read,
                                         current_state, OkBool(was_pressed),
                                         Debounced(read), last))
          /\ CIRCLE_RADIUS' = IF was_pressed THEN MIN_RADIUS ELSE CIRCLE_RADIUS
    /\ focusPc' = "load"
    /\ UNCHANGED <<focusCell, radius, ticks, sinceDraw, pressed_state>>
    /\ UNCHANGED <<debVars, busVars, fwVars, encVars>>

\* main.rs:124: let mut radius = CIRCLE_RADIUS.load()
FocusLoad ==
    /\ focusPc = "load"
    /\ focusPc' = "store"
    /\ radius' = CIRCLE_RADIUS
    /\ UNCHANGED <<focusCell, CIRCLE_RADIUS, ticks, sinceDraw>>
    /\ UNCHANGED <<debVars, busVars, fwVars, swVars, encVars>>

\* main.rs:125-126: radius = radius.clamp(..); CIRCLE_RADIUS.store(radius)
FocusStore ==
    /\ focusPc = "store"
    /\ focusPc' = "flush"
    /\ radius' = Clamp(radius)
    /\ CIRCLE_RADIUS' = Clamp(radius)
    /\ UNCHANGED <<focusCell, ticks, sinceDraw>>
    /\ UNCHANGED <<debVars, busVars, fwVars, swVars, encVars>>

\* main.rs:214-239, with Hy040::encode; the whole handler is one critical section
encoder_isr ==
    /\ IrqEnabled
    /\ "timer" \in irq
    /\ IF focusCell["HY040"] = "Some" /\ focusCell["HY040_TIMER"] = "Some"
       THEN \E clk, dt \in PinReads \ {"Err"} :
              LET current_state == EncodeState(hy040, clk = "Ok_true", dt = "Ok_true")
                  direction == DirectionFrom(current_state)
              IN /\ hy040' = current_state
                 /\ CIRCLE_RADIUS' = CIRCLE_RADIUS + StepOf(direction)
                 /\ irq' = irq \ {"timer"}
                 /\ ticks' = Append(ticks, TickOf(clk, dt, direction, CIRCLE_RADIUS,
                                                  CIRCLE_RADIUS + StepOf(direction),
                                                  "timer" \in irq'))
       ELSE /\ ticks' = Append(ticks, TickOf("none", "none", "none", CIRCLE_RADIUS,
                                             CIRCLE_RADIUS, TRUE))
            /\ UNCHANGED <<hy040, CIRCLE_RADIUS, irq>>
    /\ UNCHANGED <<focusPc, focusCell, radius, sinceDraw, timerStarted, srcVars, encodes>>
    /\ UNCHANGED <<debVars, busVars, swVars>>

\* the clock moves on by half a loop period; the loop of main.rs:117-138 reads
\* no clock
FocusTick ==
    /\ sinceDraw < DELAY_LOOP_MS
    /\ sinceDraw' = sinceDraw + DELAY_LOOP_MS \div 2
    /\ UNCHANGED <<focusPc, focusCell, CIRCLE_RADIUS, radius, ticks>>
    /\ UNCHANGED <<debVars, busVars, fwVars, swVars, encVars>>

FocusInit ==
    /\ focusPc = "start"
    /\ focusCell = [c \in FocusCells |-> "None"]   \* Mutex::new(RefCell::new(None))
    /\ CIRCLE_RADIUS = MIN_RADIUS                  \* AtomicI32::new(MIN_RADIUS as i32)
    /\ radius = 0
    /\ ticks = <<>>
    /\ sinceDraw = DELAY_LOOP_MS                   \* the loop has not drawn yet

FocusNext ==
    \/ FocusStart /\ UNCHANGED auxVars
    \/ FocusSetup /\ UNCHANGED auxVars
    \/ \E result \in {Ok} \cup {SpiBusErr(e) : e \in BusErrors} :
         FocusDisplay(result) /\ UNCHANGED auxVars
    \/ \E read \in PinReads \ {"Err"} :
         Len(polls) < MaxPolls /\ switch_handler(read) /\ UNCHANGED auxVars
    \/ FocusLoad /\ UNCHANGED auxVars
    \/ FocusStore /\ UNCHANGED auxVars
    \/ Len(ticks) < MaxTicks /\ encoder_isr /\ UNCHANGED auxVars
    \/ Len(ticks) < MaxTicks /\ TimerFire /\ UNCHANGED auxVars
    \/ FocusTick /\ UNCHANGED auxVars

DebInit ==
    /\ register = 0          \* Debouncer::default()
    /\ hist = <<>>

\* screen.rs:40 builds the display's SpiPeripheral with ns_per_tick = 4
AuxInit ==
    /\ ns_per_tick = [d \in Devices |-> NsPerTick]
    /\ stale = [line \in {"button", "sw"} |-> "none"]
    /\ pairs = <<>>

Init == DebInit /\ BusInit /\ FwInit /\ SwInit /\ EncInit /\ FocusInit /\ AuxInit

DebNext == \E state \in BOOLEAN : debounce(state) /\ UNCHANGED auxVars

SpecDeb == Init /\ [][DebNext]_vars

SpecBus == Init /\ [][BusNext]_vars

SpecDelay == Init /\ [][DelayNext]_vars

SpecPair == Init /\ [][PairNext]_vars

SpecFw == Init /\ [][FwNext]_vars

SpecIrq == Init /\ [][IrqNext]_vars

\* main is a loop that never waits: a step it can take is eventually taken
SpecFwLive == Init /\ [][LiveNext]_vars /\ WF_vars(FwMain)

SpecSw == Init /\ [][SwNext]_vars

SpecHold == Init /\ [][HoldNext]_vars

SpecPress == Init /\ [][PressNext]_vars

SpecEnc == Init /\ [][EncNext]_vars

SpecFocus == Init /\ [][FocusNext]_vars

(***************************************************************************)
(* Properties of the Debouncer (SpecDeb)                                   *)
(***************************************************************************)

\* every sample fed so far was true
OnlyTrue == \A i \in DOMAIN hist : hist[i].sample

\* the last k samples were all false
LastFalse(k) == \A i \in (Len(hist) - k + 1)..Len(hist) : ~hist[i].sample

\* C8: a fresh Debouncer fed only true samples is in Transition after the 1st
\* and the 2nd sample and Loaded at the 3rd.
C8_LoadedAtThirdTrue ==
    OnlyTrue =>
      /\ Len(hist) \in {1, 2} => get_state = "Transition"
      /\ Len(hist) = 3 => get_state = "Loaded"

C8_Witness ==
    /\ OnlyTrue
    /\ Len(hist) = 3
    /\ get_state = "Loaded"

\* C9: from a Loaded Debouncer fed only false samples, the state is Transition
\* after each of the first 7 samples and Unloaded from the 8th on.
C9_UnloadedAtEighthFalse ==
    \A n \in 1..Len(hist) :
      \A k \in 1..(Len(hist) - n) :
        (/\ DebounceStateFrom(hist[n].reg) = "Loaded"
         /\ n + k = Len(hist)
         /\ LastFalse(k))
        => get_state = (IF k < 8 THEN "Transition" ELSE "Unloaded")

C9_Witness ==
    /\ Len(hist) = 11
    /\ DebounceStateFrom(hist[3].reg) = "Loaded"
    /\ LastFalse(8)
    /\ get_state = "Unloaded"

\* C10: for every register value, get_state is Loaded exactly when the low 3
\* bits of the register are all ones, otherwise Unloaded exactly when the whole
\* register is zero, otherwise Transition.
C10_MaskedClassification ==
    get_state = (IF register % (DEBOUNCE_MASK + 1) = DEBOUNCE_MASK THEN "Loaded"
                 ELSE IF register = 0 THEN "Unloaded"
                 ELSE "Transition")

\* the sample given i calls ago as a bit, 0 when fewer than i + 1 were given
SampleAgo(i) == IF i < Len(hist) /\ hist[Len(hist) - i].sample THEN 1 ELSE 0

\* C31: bit i (0 <= i < 8) of the register is the sample given i calls ago, 0
\* when fewer than i + 1 samples were given, and the register has no other bit:
\* the most recent sample is the least-significant bit and samples older than
\* eight calls are gone.
C31_RegisterIsLastEight ==
    /\ register \in 0..(U8 - 1)
    /\ \A i \in 0..7 : (register \div (2 ^ i)) % 2 = SampleAgo(i)

\* nine samples, the first one true and since shifted out of the register
C31_Witness ==
    /\ Len(hist) = 9
    /\ hist[1].sample
    /\ register = 1
    /\ hist[9].sample

(***************************************************************************)
(* Properties of SpiPeripheral::transaction (SpecBus)                      *)
(***************************************************************************)

\* the events that access the bus, and the flush
BusAccess == (OpKinds \ {"DelayNs"}) \cup {"flush"}
OpEvents == OpKinds \cup {"flush"}

\* a call has returned and its result and log are still there
Returned == Idle /\ txnDev # "none"

\* the log of a call on `operations` in which nothing failed
SuccessLog(operations) ==
    <<Event("acquire", 0, "ok"), Event("cs_low", 0, "ok")>>
    \o [i \in 1..Len(operations) |-> Event(operations[i], i, "ok")]
    \o <<Event("flush", 0, "ok"), Event("cs_high", 0, "ok"), Event("release", 0, "ok")>>

\* C2: a successful transaction is exactly acquire, chip-select low, every
\* operation in list order, flush, chip-select high, release; and in every call
\* no operation or flush comes before chip-select is asserted or after it is
\* deasserted.
C2_SuccessfulSequence ==
    /\ (Returned /\ lastResult[txnDev] = Ok) => log = SuccessLog(txnOps)
    /\ \A i \in DOMAIN log :
         log[i].ev \in OpEvents =>
           /\ \E j \in 1..(i - 1) : log[j] = Event("cs_low", 0, "ok")
           /\ \A j \in 1..(i - 1) : log[j].ev # "cs_high"

C2_Witness ==
    /\ Returned
    /\ lastResult[txnDev] = Ok
    /\ txnOps = <<"Write", "Read">>

\* C3: when the k-th operation fails on the bus, the call returns SpiBus of that
\* error, no later operation and no flush is executed; a flush failure is
\* returned as SpiBus too.
C3_BusErrorAborts ==
    \A i \in DOMAIN log :
        (log[i].ev \in BusAccess /\ log[i].err # "ok") =>
          /\ txnRes = SpiBusErr(log[i].err)
          /\ \A j \in DOMAIN log : j > i => log[j].ev = "release"
          /\ Returned => lastResult[txnDev] = SpiBusErr(log[i].err)

C3_Witness ==
    /\ Returned
    /\ Len(txnOps) = 2
    /\ Len(log) >= 3
    /\ log[3] = Event("Write", 1, "e2")
    /\ lastResult[txnDev] = SpiBusErr("e2")

\* C4: a transaction that returned because a bus operation or the flush failed
\* has asserted chip-select and not deasserted it, and the device's line stays
\* low until a later transaction of the device has deasserted it on its way to
\* a successful return.
C4_ChipSelectStaysLow ==
    /\ (txnRes.kind = "SpiBus") =>
          /\ \E j \in DOMAIN log : log[j] = Event("cs_low", 0, "ok")
          /\ \A j \in DOMAIN log : log[j].ev # "cs_high"
    /\ \A d \in Devices :
         (lastResult[d].kind = "SpiBus" /\ ~(txnPc[d] = "exit" /\ txnRes = Ok))
            => csLine[d] = "Low"

C4_Witness ==
    /\ Returned
    /\ lastResult["display"].kind = "SpiBus"
    /\ csLine["display"] = "Low"
    /\ lastResult["other"] = Ok
    /\ txnDev = "other"

\* C5: with the bus cell empty at the start, the call returns Lock at once: one
\* attempt to acquire, no chip-select write, no operation, no flush.
C5_LockFailsFast ==
    /\ (Returned /\ busCell = "None") => lastResult[txnDev] = LockErr
    /\ \A d \in Devices :
         (txnPc[d] \in {"assert", "ops", "deassert"}) => busCell = "Some"
    /\ (txnRes = LockErr \/ (Returned /\ lastResult[txnDev] = LockErr)) =>
          /\ log[1] = Event("acquire", 0, "Lock")
          /\ \A j \in DOMAIN log : j > 1 => log[j].ev = "release"
          /\ Len(log) <= 2

C5_Witness ==
    /\ Returned
    /\ lastResult[txnDev] = LockErr
    /\ txnOps # <<>>
    /\ log = <<Event("acquire", 0, "Lock"), Event("release", 0, "ok")>>

\* C6: a failed chip-select assertion makes the call return ChipSelect with no
\* operation and no flush executed; a failed deassertion after a successful
\* flush makes it return ChipSelect.
C6_ChipSelectErrors ==
    \A i \in DOMAIN log :
        /\ (log[i] = Event("cs_low", 0, "gpio")) =>
              /\ txnRes = ChipSelectErr
              /\ \A j \in DOMAIN log : log[j].ev \notin OpEvents
              /\ Returned => lastResult[txnDev] = ChipSelectErr
        /\ (log[i] = Event("cs_high", 0, "gpio")) =>
              /\ log[i - 1] = Event("flush", 0, "ok")
              /\ txnRes = ChipSelectErr
              /\ Returned => lastResult[txnDev] = ChipSelectErr

C6_Witness ==
    /\ Returned
    /\ lastResult["display"] = ChipSelectErr
    /\ lastResult["other"] = ChipSelectErr
    /\ \E i \in DOMAIN log : log[i] = Event("cs_high", 0, "gpio")
    /\ csLine[txnDev] = "Low"

\* C7: a call with an empty operation list in which nothing fails asserts
\* chip-select, flushes once, deasserts chip-select, does no read, write or
\* transfer, and returns success.
C7_EmptyTransaction ==
    (/\ Returned
     /\ txnOps = <<>>
     /\ \A j \in DOMAIN log : log[j].err = "ok")
    => /\ log = <<Event("acquire", 0, "ok"), Event("cs_low", 0, "ok"),
                  Event("flush", 0, "ok"), Event("cs_high", 0, "ok"),
                  Event("release", 0, "ok")>>
       /\ lastResult[txnDev] = Ok
       /\ csLine[txnDev] = "High"

C7_Witness ==
    /\ Returned
    /\ txnOps = <<>>
    /\ lastResult[txnDev] = Ok

(***************************************************************************)
(* Properties of the firmware (SpecFw)                                     *)
(***************************************************************************)

\* C34: once transaction has returned, with Ok, Lock, ChipSelect or SpiBus,
\* the bus cell is not borrowed and no critical section is open, and no
\* transaction that follows fails to borrow the cell.
C34_BusReleasedOnEveryExit ==
    /\ Idle => (busHolder = {} /\ critDepth = 0)
    /\ \A d \in Devices : txnPc[d] # "panic"

\* a transaction has acquired the bus after the other device's transaction
\* returned a bus error, and one after a chip-select error
C34_Witness ==
    \E d \in Devices :
      /\ lastResult[d].kind \in {"SpiBus", "ChipSelect"}
      /\ \E e \in Devices \ {d} : txnPc[e] = "assert" /\ busHolder = {e}

\* the transaction of device d is at a DelayNs operation and moves
AtDelay(d) ==
    /\ txnPc[d] = "ops"
    /\ txnIdx <= Len(txnOps)
    /\ txnOps[txnIdx] = "DelayNs"
    /\ <<txnIdx, txnPc>>' # <<txnIdx, txnPc>>

\* C32: a DelayNs(n) operation of a transaction terminates, whatever n and
\* the ns_per_tick of the device, after exactly floor(n / ns_per_tick)
\* busy-wait iterations; it accesses neither the bus nor the chip-select and
\* leaves the transaction's result as it was.
C32_DelayTerminates ==
    [][\A d \in Devices :
         AtDelay(d) =>
           /\ ~panicked'
           /\ txnPc'[d] = "ops"
           /\ txnIdx' = txnIdx + 1
           /\ Len(txnSpins') = Len(txnSpins) + 1
           /\ txnSpins'[Len(txnSpins')].iterations
                = txnSpins'[Len(txnSpins')].delay_ns \div ns_per_tick[d]
           /\ log' = Append(log, Event("DelayNs", txnIdx, "ok"))
           /\ txnRes' = txnRes
           /\ csLine' = csLine
           /\ busCell' = busCell]_vars

\* the devices with a transaction call in progress
MidTransaction == {d \in Devices : txnPc[d] # "idle"}

\* C1: in every state of the firmware, whatever the interleaving of main with
\* button_handler and encoder_handler, at most one device is inside
\* transaction, the RefMut of SPI_BUS is held by at most one call, only by a call
\* in progress, and by every call that is past its acquisition; no call ever
\* finds the bus already borrowed.
C1_OneDeviceOnBus ==
    /\ Cardinality(MidTransaction) <= 1
    /\ Cardinality(busHolder) <= 1
    /\ busHolder \subseteq MidTransaction
    /\ \A d \in Devices :
         /\ txnPc[d] \in {"assert", "ops", "deassert", "exit"} => busHolder = {d}
         /\ txnPc[d] # "panic"

C1_Witness ==
    /\ mainPc = "flush_wait"
    /\ txnPc["display"] = "ops"
    /\ busHolder = {"display"}
    /\ BOOT_PRESSED
    /\ COUNTER # 0
    /\ "timer" \in irq

(***************************************************************************)
(* Properties of the switches (SpecSw, SpecHold)                           *)
(***************************************************************************)

\* the pin was at the pressed level at poll i
Sampled(i) == polls[i].read # "Err" /\ AtPressedLevel(polls[i].read)

\* every call so far was made on the switch sw through `method` and read the pin
CleanRun(sw, method) ==
    \A i \in DOMAIN polls :
        polls[i].sw = sw /\ polls[i].method = method /\ polls[i].read # "Err"

\* the samples so far are m released, then n pressed, then released to the end
HeldThenReleased(m, n) ==
    /\ m + n <= Len(polls)
    /\ \A i \in 1..m : ~Sampled(i)
    /\ \A i \in (m + 1)..(m + n) : Sampled(i)
    /\ \A i \in (m + n + 1)..Len(polls) : ~Sampled(i)

\* C11: a DebouncedSwitch that starts Released and whose pin is then held
\* pressed returns, from get_current_state, Transition, Transition, Pressed and
\* then Transition on every further call; once the pin is released the next 7
\* calls return Transition and the 8th returns Released.
C11_HeldSwitchStates ==
    (polls # <<>> /\ CleanRun("DebouncedSwitch", "get_current_state")) =>
      \A m \in 0..Len(polls), n \in 1..Len(polls) :
        HeldThenReleased(m, n) =>
          polls[Len(polls)].ret =
            (IF Len(polls) = m + n
             THEN (IF n = 3 THEN "Pressed" ELSE "Transition")
             ELSE IF Len(polls) - m - n < 8 THEN "Transition" ELSE "Released")

C11_Witness ==
    /\ Len(polls) = 12
    /\ CleanRun("DebouncedSwitch", "get_current_state")
    /\ HeldThenReleased(0, 4)
    /\ polls[3].ret = "Pressed"
    /\ polls[4].ret = "Transition"
    /\ polls[11].ret = "Transition"
    /\ polls[12].ret = "Released"

\* C12: for a plain Switch polled only through has_been_pressed with
\* successful reads, a poll returns true exactly when the previous poll did not
\* read Pressed (or there was none) and this one does, and it leaves last_state
\* at the state it read: held pressed gives true on the first poll only, a
\* release gives false, the next press gives true again.
C12_PlainSwitchEdge ==
    CleanRun("Switch", "has_been_pressed") =>
      \A i \in DOMAIN polls :
        LET previous == IF i = 1 THEN "Released" ELSE polls[i - 1].state
        IN /\ polls[i].state = (IF Sampled(i) THEN "Pressed" ELSE "Released")
           /\ polls[i].ret = (IF previous # "Pressed" /\ Sampled(i)
                              THEN "Ok_true" ELSE "Ok_false")
           /\ polls[i].last_state["Switch"] = polls[i].state

C12_Witness ==
    /\ Len(polls) = 4
    /\ CleanRun("Switch", "has_been_pressed")
    /\ Sampled(1) /\ Sampled(2) /\ ~Sampled(3) /\ Sampled(4)
    /\ polls[1].ret = "Ok_true"
    /\ polls[2].ret = "Ok_false"
    /\ polls[3].ret = "Ok_false"
    /\ polls[4].ret = "Ok_true"

\* C13: a fresh DebouncedSwitch whose pin is held pressed and which is polled
\* only through has_been_pressed returns false on the first two polls and true
\* on the third; every later poll, with the pin still pressed or released,
\* returns false as long as the debounced state has not become Pressed again.
C13_DebouncedSwitchEdge ==
    CleanRun("DebouncedSwitch", "has_been_pressed") =>
      \A i \in DOMAIN polls :
        (\A j \in 1..(IF i < 3 THEN i ELSE 3) : Sampled(j)) =>
          /\ i < 3 => polls[i].ret = "Ok_false"
          /\ i = 3 => polls[i].ret = "Ok_true"
          /\ (i > 3 /\ \A j \in 4..i : Sampled(j)) =>
                polls[i].state = "Transition" /\ polls[i].ret = "Ok_false"
          /\ (i > 3 /\ \A j \in 4..i : polls[j].state # "Pressed") =>
                polls[i].ret = "Ok_false"

C13_Witness ==
    /\ Len(polls) = 12
    /\ CleanRun("DebouncedSwitch", "has_been_pressed")
    /\ \A j \in 1..4 : Sampled(j)
    /\ \A j \in 5..9 : ~Sampled(j)
    /\ polls[2].ret = "Ok_false"
    /\ polls[3].ret = "Ok_true"
    /\ polls[4].ret = "Ok_false"
    /\ polls[5].ret = "Ok_false"
    /\ polls[11].ret = "Ok_false"
    /\ polls[12].state = "Pressed"

\* C14: get_current_state, of the Switch and of the DebouncedSwitch, returns
\* Faulty exactly when the pin read failed; after a successful read the plain
\* Switch returns Pressed when the level is the configured pressed level and
\* Released otherwise.
C14_FaultyOnlyOnReadFailure ==
    \A i \in DOMAIN polls :
        /\ (polls[i].state = "Faulty") <=> (polls[i].read = "Err")
        /\ polls[i].method = "get_current_state" =>
             /\ polls[i].ret = polls[i].state
             /\ (polls[i].sw = "Switch" /\ polls[i].read # "Err") =>
                  polls[i].ret =
                    (IF \/ polls[i].read = "Ok_true" /\ pressed_state = "High"
                        \/ polls[i].read = "Ok_false" /\ pressed_state = "Low"
                     THEN "Pressed" ELSE "Released")

C14_Witness ==
    /\ Len(polls) = 4
    /\ pressed_state = "Low"
    /\ \A i \in DOMAIN polls : polls[i].method = "get_current_state"
    /\ polls[1].sw = "Switch" /\ polls[1].read = "Ok_false" /\ polls[1].ret = "Pressed"
    /\ polls[2].sw = "Switch" /\ polls[2].read = "Ok_true" /\ polls[2].ret = "Released"
    /\ polls[3].sw = "Switch" /\ polls[3].read = "Err" /\ polls[3].ret = "Faulty"
    /\ polls[4].sw = "DebouncedSwitch" /\ polls[4].read = "Err" /\ polls[4].ret = "Faulty"

\* the fields of the two switches before poll i
RegisterBefore(i) == IF i = 1 THEN 0 ELSE polls[i - 1].debouncer
LastStateBefore(i) ==
    IF i = 1 THEN [sw \in SwitchKinds |-> "Released"] ELSE polls[i - 1].last_state

\* what a successful has_been_pressed of sw returns from register reg, last
\* state last and a pin at the pressed level or not
ExpectedPress(sw, reg, last, sample) ==
    LET current_state ==
          IF sw = "Switch" THEN (IF sample THEN "Pressed" ELSE "Released")
          ELSE SwitchStateFrom(DebounceStateFrom(ShiftIn(reg, sample)))
    IN IF last[sw] # "Pressed" /\ current_state = "Pressed" THEN "Ok_true" ELSE "Ok_false"

\* C15: a has_been_pressed whose pin read fails returns the ReadPinState error
\* and changes nothing: the debounce register gets no sample and last_state is
\* kept, so the next successful poll returns what it would have returned
\* without the failed one.
C15_FailedReadChangesNothing ==
    \A i \in DOMAIN polls :
        (polls[i].method = "has_been_pressed" /\ polls[i].read = "Err") =>
          /\ polls[i].ret = "Err_ReadPinState"
          /\ polls[i].debouncer = RegisterBefore(i)
          /\ polls[i].last_state = LastStateBefore(i)
          /\ (/\ i < Len(polls)
              /\ polls[i + 1].sw = polls[i].sw
              /\ polls[i + 1].method = "has_been_pressed"
              /\ polls[i + 1].read # "Err") =>
                polls[i + 1].ret = ExpectedPress(polls[i].sw, RegisterBefore(i),
                                                 LastStateBefore(i), Sampled(i + 1))

C15_Witness ==
    /\ Len(polls) = 4
    /\ \A i \in DOMAIN polls :
         polls[i].sw = "DebouncedSwitch" /\ polls[i].method = "has_been_pressed"
    /\ Sampled(1) /\ Sampled(2) /\ Sampled(4)
    /\ polls[3].read = "Err"
    /\ polls[3].ret = "Err_ReadPinState"
    /\ polls[3].debouncer = 3
    /\ polls[4].ret = "Ok_true"

(***************************************************************************)
(* Properties of the decoders (SpecEnc)                                    *)
(***************************************************************************)

\* the calls of Hy040::encode that returned
Encoded == {i \in DOMAIN encodes : encodes[i].fn = "encode" /\ encodes[i].ret # "panic"}

\* C16: a Hy040 made by new has state 0b11; from that state one encode with clk
\* low and dt high leaves state 0b1101 and returns Clockwise, with clk high and
\* dt low it returns CounterClockwise, with both low it returns Rest.
C16_FirstEncode ==
    /\ (\A i \in DOMAIN encodes : encodes[i].fn # "encode") => hy040 = 3
    /\ \A i \in Encoded :
         encodes[i].before = 3 =>
           /\ (encodes[i].clk = "Ok_false" /\ encodes[i].dt = "Ok_true") =>
                encodes[i].after = 13 /\ encodes[i].ret = "Clockwise"
           /\ (encodes[i].clk = "Ok_true" /\ encodes[i].dt = "Ok_false") =>
                encodes[i].ret = "CounterClockwise"
           /\ (encodes[i].clk = "Ok_false" /\ encodes[i].dt = "Ok_false") =>
                encodes[i].ret = "Rest"

C16_Witness ==
    /\ Len(encodes) = 1
    /\ encodes[1].fn = "encode"
    /\ encodes[1].clk = "Ok_false"
    /\ encodes[1].dt = "Ok_true"
    /\ encodes[1].before = 3
    /\ hy040 = 13
    /\ encodes[1].ret = "Clockwise"

\* C17: the direction encode returns is Clockwise exactly for the values 13, 4,
\* 2, 11 of the state it computed, CounterClockwise exactly for 14, 8, 1, 7 and
\* Rest for the eight other 4-bit values.
C17_DirectionTable ==
    \A i \in Encoded :
        /\ encodes[i].after \in 0..15
        /\ (encodes[i].ret = "Clockwise") <=> (encodes[i].after \in {13, 4, 2, 11})
        /\ (encodes[i].ret = "CounterClockwise") <=> (encodes[i].after \in {14, 8, 1, 7})
        /\ (encodes[i].ret = "Rest") <=> (encodes[i].after \in {0, 3, 5, 6, 9, 10, 12, 15})

C17_Witness ==
    /\ Len(encodes) = 4
    /\ Encoded = 1..4
    /\ encodes[1].after = 13
    /\ encodes[2].after = 4
    /\ encodes[3].after = 2
    /\ encodes[4].after = 11
    /\ \A i \in 1..4 : encodes[i].ret = "Clockwise"

\* C18: after every encode the state is a 4-bit value whose high 2 bits are the
\* low 2 bits of the state before the call and whose low 2 bits are the sample
\* just read: bit 1 is set iff clk read high, bit 0 iff dt read high.
C18_StateLayout ==
    /\ hy040 \in 0..15
    /\ \A i \in Encoded :
         /\ encodes[i].after \in 0..15
         /\ encodes[i].after \div 4 = encodes[i].before % 4
         /\ (encodes[i].after % 4) \div 2 = (IF encodes[i].clk = "Ok_true" THEN 1 ELSE 0)
         /\ encodes[i].after % 2 = (IF encodes[i].dt = "Ok_true" THEN 1 ELSE 0)
         /\ (\A j \in Encoded : j <= i) => hy040 = encodes[i].after

C18_Witness ==
    /\ Len(encodes) = 2
    /\ Encoded = 1..2
    /\ encodes[2].before = 13
    /\ encodes[2].clk = "Ok_true"
    /\ encodes[2].dt = "Ok_false"
    /\ hy040 = 6

\* the number of lines on which the 2-bit samples x and y differ
LinesChanged(x, y) ==
    (IF x \div 2 # y \div 2 THEN 1 ELSE 0) + (IF x % 2 # y % 2 THEN 1 ELSE 0)

\* C19: a call of the decoder (encode, and update of the firmware's decoder)
\* returns Clockwise or CounterClockwise exactly when the previous and the
\* current sample differ in exactly one line, and Rest exactly when they are
\* equal or differ in both lines.
C19_RotationOnSingleStep ==
    \A i \in DOMAIN encodes :
        encodes[i].ret # "panic" =>
          LET changed == LinesChanged(encodes[i].before % 4, encodes[i].after % 4)
          IN /\ (encodes[i].ret \in {"Clockwise", "CounterClockwise"}) <=> (changed = 1)
             /\ (encodes[i].ret = "Rest") <=> (changed \in {0, 2})

C19_Witness ==
    /\ Len(encodes) = 4
    /\ encodes[1].fn = "encode" /\ encodes[1].after = 15 /\ encodes[1].ret = "Rest"
    /\ encodes[2].fn = "encode" /\ encodes[2].after = 12 /\ encodes[2].ret = "Rest"
    /\ encodes[3].fn = "encode" /\ encodes[3].after = 1
    /\ encodes[3].ret = "CounterClockwise"
    /\ encodes[4].fn = "update" /\ encodes[4].after = 13 /\ encodes[4].ret = "Clockwise"

\* C20: every encode call, whatever the two pin reads give, a failed read
\* included, completes and returns Clockwise, CounterClockwise or Rest.
C20_EncodeNeverFails ==
    \A i \in DOMAIN encodes :
        encodes[i].fn = "encode" =>
          encodes[i].ret \in {"Clockwise", "CounterClockwise", "Rest"}

(***************************************************************************)
(* Properties of the firmware of focus/src/bin/main.rs (SpecFocus)         *)
(***************************************************************************)

\* the first n executions of encoder_isr all sampled clk low and dt high
LowHighRun(n) ==
    /\ Len(ticks) >= n
    /\ \A i \in 1..n : ticks[i].clk = "Ok_false" /\ ticks[i].dt = "Ok_true"

\* main did not change CIRCLE_RADIUS between the executions i and i + 1
Untouched(i) == ticks[i + 1].before = ticks[i].after

Decodes(direction) == Cardinality({i \in 1..Len(ticks) : ticks[i].ret = direction})

\* no poll of the boot button has reported a press: nothing has reset the counter
NoReset == \A i \in 1..Len(polls) : polls[i].ret # OkBool(TRUE)

\* no execution of encoder_isr has taken the counter out of MIN_RADIUS..MAX_RADIUS
InRange ==
    /\ CIRCLE_RADIUS \in MIN_RADIUS..MAX_RADIUS
    /\ \A i \in 1..Len(ticks) : ticks[i].after \in MIN_RADIUS..MAX_RADIUS

\* C29: while the counter has stayed in range and nothing has reset it, the
\* value main loads is the initial value plus the number of
\* Clockwise results minus the number of CounterClockwise results so far.
C29_NoStepLost ==
    [][(FocusLoad /\ NoReset /\ InRange)
         => radius' = MIN_RADIUS + Decodes("Clockwise") - Decodes("CounterClockwise")]_vars

\* C28: a redraw of the loop begins no sooner than DELAY_LOOP_MS after the
\* redraw before it began.
C28_RedrawOncePerPeriod ==
    [][(focusPc = "flush" /\ focusPc' # "flush") => sinceDraw >= DELAY_LOOP_MS]_vars

\* ---------------------------------------------------------------------------
\* Properties of the interrupt handlers and the main loop of src/bin/main.rs
\* (SpecFw)
\* ---------------------------------------------------------------------------

\* encoder_handler has run with the encoder and its timer in their cells
Decoded == encoder_handler /\ cell["HY_040"] = "Some" /\ cell["ENCODER_TIMER"] = "Some"

\* C22: an execution of the timer handler changes the counter by +1 when the
\* decode result is Clockwise, by -1 when it is CounterClockwise and by 0
\* when it is Rest, and it changes neither pressed flag.
C22_HandlerStepsCounter ==
    [][Decoded =>
         /\ DirectionOf(hyState') = "Clockwise" => COUNTER' = COUNTER + 1
         /\ DirectionOf(hyState') = "CounterClockwise" => COUNTER' = COUNTER - 1
         /\ DirectionOf(hyState') = "Rest" => COUNTER' = COUNTER
         /\ SW_PRESSED' = SW_PRESSED
         /\ BOOT_PRESSED' = BOOT_PRESSED]_vars

\* the handler has just decoded a counter-clockwise step from the counter at 0
C22_Witness ==
    /\ DirectionOf(hyState) = "CounterClockwise"
    /\ COUNTER = -1
    /\ "timer" \notin irq
    /\ timerStarted

\* C23: every execution of the timer handler leaves the timer interrupt
\* cleared, also when the decoded direction is Rest; the timer interrupt is
\* never pending while the encoder or the timer is missing from its cell.
C23_TimerInterruptCleared ==
    /\ [][encoder_handler => "timer" \notin irq']_vars
    /\ [](("timer" \in irq) => (cell["HY_040"] = "Some" /\ cell["ENCODER_TIMER"] = "Some"))

\* the handler has decoded Rest from two high lines and the interrupt is clear
C23_Witness ==
    /\ timerStarted
    /\ hyState = 15
    /\ DirectionOf(hyState) = "Rest"
    /\ "timer" \notin irq

\* C24: a button handler that is entered inside the debounce window returns
\* with the interrupt conditions of the button and of the encoder's switch
\* cleared, the timestamp as it was and both pressed flags as they were.
C24_IgnoredIsAcknowledged ==
    [][(button_handler /\ InWindow) =>
         /\ irq' \cap {"button", "sw"} = {}
         /\ elapsed'["DEBOUNCE_TIMER"] = elapsed["DEBOUNCE_TIMER"]
         /\ BOOT_PRESSED' = BOOT_PRESSED
         /\ SW_PRESSED' = SW_PRESSED]_vars

\* C25, as stated: a button handler that is entered outside the debounce
\* window stores the current time, sets BOOT_PRESSED and clears the button's
\* interrupt.
C25_AcceptedSetsBoot ==
    [][(button_handler /\ ~InWindow) =>
         /\ cell'["DEBOUNCE_TIMER"] = "Some"
         /\ elapsed'["DEBOUNCE_TIMER"] = 0
         /\ BOOT_PRESSED'
         /\ "button" \notin irq']_vars

\* C25: a button handler that is entered outside the debounce window stores
\* the current time; it sets BOOT_PRESSED and clears the button's interrupt
\* when the button is in its cell and its interrupt is set, and leaves both as
\* they were when not; the same holds of SW_PRESSED and the encoder's switch.
C25_AcceptedSetsPending ==
    [][(button_handler /\ ~(cell["DEBOUNCE_TIMER"] = "Some"
                            /\ elapsed["DEBOUNCE_TIMER"] < DEBOUNCE_MS)) =>
         /\ cell'["DEBOUNCE_TIMER"] = "Some"
         /\ elapsed'["DEBOUNCE_TIMER"] = 0
         /\ IF cell["BUTTON"] = "Some" /\ "button" \in irq
            THEN BOOT_PRESSED' /\ "button" \notin irq'
            ELSE BOOT_PRESSED' = BOOT_PRESSED /\ ("button" \in irq' <=> "button" \in irq)
         /\ IF cell["HY_040"] = "Some" /\ "sw" \in irq
            THEN SW_PRESSED' /\ "sw" \notin irq'
            ELSE SW_PRESSED' = SW_PRESSED /\ ("sw" \in irq' <=> "sw" \in irq)]_vars

\* a press of the button has just been accepted in the running loop
C25_Witness ==
    /\ mainPc \in LoopPcs
    /\ cell["BUTTON"] = "Some"
    /\ BOOT_PRESSED
    /\ elapsed["DEBOUNCE_TIMER"] = 0
    /\ "button" \notin irq

C27_RadiusInRange ==
    mainPc = "flush" => (radius32[1] = 0 /\ radius32[2] \in MIN_COUNTER..MAX_COUNTER)

\* C30: no execution of a handler finds one of the cells it borrows empty: the
\* button handler its timestamp and, past the window, the button and the
\* encoder; the timer handler the encoder and its timer.
C30_CellsFilledBeforeInterrupts ==
    [][/\ button_handler =>
            /\ cell["DEBOUNCE_TIMER"] = "Some"
            /\ elapsed["DEBOUNCE_TIMER"] >= DEBOUNCE_MS
                  => (cell["BUTTON"] = "Some" /\ cell["HY_040"] = "Some")
       /\ encoder_handler => (cell["HY_040"] = "Some" /\ cell["ENCODER_TIMER"] = "Some")]_vars


\* C33: while a transaction holds the bus no handler runs: the decoder state,
\* the counter and the pressed flags stay as they are and every pending
\* interrupt, a timer tick that arose during the transaction included, stays
\* pending until the transaction has released the bus.
C33_NoHandlerDuringTransaction ==
    [][busHolder # {} =>
         /\ hyState' = hyState
         /\ COUNTER' = COUNTER
         /\ SW_PRESSED' = SW_PRESSED
         /\ BOOT_PRESSED' = BOOT_PRESSED
         /\ irq \subseteq irq']_vars

\* the timer interrupt is pending while the display's transaction is at its
\* operations
C33_Witness ==
    /\ busHolder = {"display"}
    /\ txnPc["display"] = "ops"
    /\ "timer" \in irq

\* C37: no borrow_ref_mut finds its cell borrowed: no transaction panics at
\* its borrow, a RefMut outlives a step only inside a critical section, and
\* every critical section that can be entered borrows cells that have no live
\* RefMut, of another section or of its own.
C37_NoDoubleBorrow ==
    /\ \A d \in Devices : txnPc[d] # "panic"
    /\ busHolder # {} => critDepth > 0
    /\ critDepth = 0 => \A section \in Sections : ~DoubleBorrow(BorrowsOf(section), 1, Held)

\* the button's interrupt is pending while the display's transaction holds SPI_BUS
C37_Witness ==
    /\ busHolder = {"display"}
    /\ critDepth = 1
    /\ "button" \in irq
    /\ cell["BUTTON"] = "Some"


\* ---------------------------------------------------------------------------
\* Properties of the debounce window of button_handler (SpecIrq)
\* ---------------------------------------------------------------------------

\* C35: an edge inside the debounce window, which the handler run it
\* triggered has ignored, sets no pressed flag in a later run either: a run
\* past the window stores true for no line whose pending bit dates from an
\* ignored edge.
C35_IgnoredEdgeSetsNoFlag ==
    [][(button_handler /\ ~(cell["DEBOUNCE_TIMER"] = "Some"
                            /\ elapsed["DEBOUNCE_TIMER"] < DEBOUNCE_MS)) =>
         /\ (cell["BUTTON"] = "Some" /\ "button" \in irq /\ BOOT_PRESSED')
               => stale["button"] # "ignored"
         /\ (cell["HY_040"] = "Some" /\ "sw" \in irq /\ SW_PRESSED')
               => stale["sw"] # "ignored"]_vars


\* ---------------------------------------------------------------------------
\* Progress of the main loop of src/bin/main.rs (SpecFwLive)
\* ---------------------------------------------------------------------------

C38_OppositeDirections ==
    \A i \in DOMAIN pairs :
        /\ (pairs[i].encode = "Rest") <=> (pairs[i].update = "Rest")
        /\ (pairs[i].encode = "Clockwise") <=> (pairs[i].update = "CounterClockwise")
        /\ (pairs[i].encode = "CounterClockwise") <=> (pairs[i].update = "Clockwise")

C38_Witness ==
    /\ Len(pairs) = 3
    /\ ~pairs[1].clk /\ pairs[1].dt
    /\ pairs[1].encode = "Clockwise" /\ pairs[1].update = "CounterClockwise"
    /\ pairs[2].encode = "CounterClockwise" /\ pairs[2].update = "Clockwise"
    /\ pairs[3].encode = "Rest" /\ pairs[3].update = "Rest"
    /\ hy040 = 15 /\ hyState = 15


\* ---------------------------------------------------------------------------
\* Direction consistency of Hy040::encode (SpecEnc)
\* ---------------------------------------------------------------------------

\* the samples the calls i..i+3 of encode read are a, b, c, d, from sample s
Cycle(i, s, a, b, c, d) ==
    /\ {i, i + 1, i + 2, i + 3} \subseteq Encoded
    /\ encodes[i].before % 4 = s
    /\ encodes[i].after % 4 = a
    /\ encodes[i + 1].before = encodes[i].after /\ encodes[i + 1].after % 4 = b
    /\ encodes[i + 2].before = encodes[i + 1].after /\ encodes[i + 2].after % 4 = c
    /\ encodes[i + 3].before = encodes[i + 2].after /\ encodes[i + 3].after % 4 = d

\* C39: for two samples x and y that differ in one line, encode returns
\* opposite directions for the step from x to y and the step from y to x; the
\* cycle (clk, dt) = 11, 01, 00, 10, 11 read one step per call returns
\* Clockwise four times and the reverse cycle CounterClockwise four times.
C39_DirectionConsistent ==
    /\ \A i, j \in Encoded :
         (/\ encodes[i].before % 4 = encodes[j].after % 4
          /\ encodes[i].after % 4 = encodes[j].before % 4
          /\ LinesChanged(encodes[i].before % 4, encodes[i].after % 4) = 1)
         => \/ encodes[i].ret = "Clockwise" /\ encodes[j].ret = "CounterClockwise"
            \/ encodes[i].ret = "CounterClockwise" /\ encodes[j].ret = "Clockwise"
    /\ \A i \in Encoded :
         /\ Cycle(i, 3, 1, 0, 2, 3) =>
              \A k \in i..(i + 3) : encodes[k].ret = "Clockwise"
         /\ Cycle(i, 3, 2, 0, 1, 3) =>
              \A k \in i..(i + 3) : encodes[k].ret = "CounterClockwise"

\* the reverse cycle has been read
C39_Witness ==
    /\ Len(encodes) = 4
    /\ Cycle(1, 3, 2, 0, 1, 3)
    /\ encodes[1].clk = "Ok_true" /\ encodes[1].dt = "Ok_false"
    /\ encodes[4].ret = "CounterClockwise"
    /\ hy040 = 7


\* ---------------------------------------------------------------------------
\* Presses reported by DebouncedSwitch::has_been_pressed (SpecPress)
\* ---------------------------------------------------------------------------

\* the pin read of the poll succeeded
Successful(poll) == poll.read # "Err"

\* the successful polls so far, in order
SuccessfulPolls == SelectSeq(polls, Successful)

\* the sample taken k successful polls before the last one; not pressed when
\* the switch did not exist yet
PressedAgo(k) ==
    /\ k < Len(SuccessfulPolls)
    /\ AtPressedLevel(SuccessfulPolls[Len(SuccessfulPolls) - k].read)

\* C40: a poll of has_been_pressed on a DebouncedSwitch polled through nothing
\* else returns true exactly when its read succeeded and the last 8 samples,
\* those before the creation counting as not pressed, are five not pressed and
\* then three pressed; a poll that returns true comes at least 8 successful
\* polls after every earlier one that did.
C40_PressEveryEightPolls ==
    polls # <<>> =>
      LET last == polls[Len(polls)]
          n == Len(SuccessfulPolls)
      IN /\ (last.ret = "Ok_true") <=>
              /\ Successful(last)
              /\ \A k \in 0..2 : PressedAgo(k)
              /\ \A k \in 3..7 : ~PressedAgo(k)
         /\ last.ret = "Ok_true" =>
              \A m \in 1..(n - 1) : SuccessfulPolls[m].ret = "Ok_true" => n - m >= 8

\* two presses, a failed read between them
C40_Witness ==
    /\ Len(polls) = 12
    /\ polls[3].ret = "Ok_true"
    /\ polls[4].read = "Err"
    /\ polls[12].ret = "Ok_true"

====
